---- MODULE Spec2Model ----
(***************************************************************************)
(* A model of the n8n-nodes-fs file-system nodes.  Every node processes    *)
(* its input records one at a time; one action of this module is the       *)
(* processing of one record by one node (the body of the per-record loop   *)
(* of the node's execute method), acting on a model of the file system.    *)
(*                                                                         *)
(* continueOnFail is the host's setting for the execution, returnData the    *)
(* items pushed so far, thrown the error that left execute ("" if none).   *)
(* stack holds the activations of copyDirectoryRecursive of a record whose *)
(* copy is followed call by call; it is empty everywhere else.             *)
(*                                                                         *)
(* A file name is a sequence of tokens: the token "." is the dot           *)
(* character and every other token is a run of characters without a dot.   *)
(* A path is the sequence of the names from the file-system root.          *)
(***************************************************************************)
EXTENDS Integers, Sequences, FiniteSets, TLC

VARIABLES fs, clock, i, req, pre, out, calls, continueOnFail, returnData, thrown, stack

vars == <<fs, clock, i, req, pre, out, calls, continueOnFail, returnData, thrown, stack>>

(***************************************************************************)
(* Bounds of the model.                                                    *)
(***************************************************************************)
\* number of records processed in one behaviour
MaxRecords == 2
\* longest list handed to sortFiles on its own
MaxFiles == 3
\* longest path (in names) the file system accepts: longer ones raise ENAMETOOLONG
MaxPathLen == 4

(***************************************************************************)
(* Names, paths and file contents.                                         *)
(***************************************************************************)
Root == <<>>

N_tmp == <<"tmp">>
N_s == <<"s">>
N_t == <<"t">>
N_n == <<"n">>
N_m == <<"m">>
N_big == <<"big">>
N_a_txt == <<"a", ".", "txt">>
N_b_txt == <<".", "b", ".", "txt">>
N_c_log == <<"c", ".", "log">>
N_d == <<"d">>
N_e == <<"e">>
N_g == <<"g", ".", "TXT">>
N_h == <<".", "h">>
N_k == <<"k", ".", "txt">>

\* a file's content is a sequence of chunks; its size is the sum of their sizes
ChunkSize(c) == CASE c = "hello" -> 5
                  [] c = "world" -> 5
                  [] c = "ten" -> 10
                  [] c = "twenty" -> 20
                  [] c = "big" -> 2 * 1024 * 1024
                  [] OTHER -> 1

RECURSIVE SizeOf(_)
SizeOf(data) == IF data = <<>> THEN 0 ELSE ChunkSize(Head(data)) + SizeOf(Tail(data))

File(data, t) == [kind |-> "file", data |-> data, mtime |-> t, btime |-> t]
Dir(t) == [kind |-> "dir", data |-> <<>>, mtime |-> t, btime |-> t]

Parent(p) == SubSeq(p, 1, Len(p) - 1)
Basename(p) == p[Len(p)]
Join(p, item) == Append(p, item)
IsPrefix(p, q) == Len(p) <= Len(q) /\ SubSeq(q, 1, Len(p)) = p
Prefixes(p) == {SubSeq(p, 1, k) : k \in 0..Len(p)}

Exists(f, p) == p \in DOMAIN f
IsFile(f, p) == Exists(f, p) /\ f[p].kind = "file"
IsDir(f, p) == Exists(f, p) /\ f[p].kind = "dir"
ChildNames(f, p) == {Basename(q) : q \in {r \in DOMAIN f : Len(r) = Len(p) + 1 /\ Parent(r) = p}}
Subtree(f, p) == {q \in DOMAIN f : IsPrefix(p, q)}
\* the paths below p, relative to p
RelPaths(f, p) == {SubSeq(q, Len(p) + 1, Len(q)) : q \in Subtree(f, p) \ {p}}

RECURSIVE SetToSeq(_)
SetToSeq(S) == IF S = {} THEN <<>>
               ELSE LET x == CHOOSE y \in S : TRUE IN <<x>> \o SetToSeq(S \ {x})

Touch(f, p, t) == IF Exists(f, p) THEN [f EXCEPT ![p].mtime = t] ELSE f
Restrict(f, S) == [q \in S |-> f[q]]
Put(f, p, node) == [q \in DOMAIN f \cup {p} |-> IF q = p THEN node ELSE f[q]]

(***************************************************************************)
(* The file-system primitives.  A primitive takes the state st of the      *)
(* record being processed (the file system, the log of primitive calls and *)
(* the pending exception, "" when there is none) and returns the new one;  *)
(* after an exception every later primitive is skipped.                    *)
(***************************************************************************)
Call(op, p, to, t) == [op |-> op, path |-> p, to |-> to, t |-> t, err |-> ""]
Start(f) == [fs |-> f, calls |-> <<>>, err |-> "", bytes |-> 0, files |-> <<>>]
Logged(st, c) == [st EXCEPT !.calls = Append(@, c)]
Throw(st, e) == IF st.err # "" THEN st ELSE [st EXCEPT !.err = e]
Failed(st) == st.err # ""
\* the primitive just logged raises e
Raise(st, e) == [st EXCEPT !.err = e, !.calls[Len(st.calls)].err = e]

\* fs.mkdir(p, {recursive: true})
MkdirP(st, p) ==
    IF Failed(st) THEN st
    ELSE LET s == Logged(st, Call("mkdir", p, Root, 0))
             f == s.fs
             missing == {q \in Prefixes(p) : ~Exists(f, q)}
         IN IF Len(p) > MaxPathLen THEN Raise(s, "ENAMETOOLONG")
            ELSE IF Exists(f, p) /\ ~IsDir(f, p) THEN Raise(s, "EEXIST")
            ELSE IF \E q \in Prefixes(p) : Exists(f, q) /\ ~IsDir(f, q) THEN Raise(s, "ENOTDIR")
            ELSE IF missing = {} THEN s
            ELSE LET first == CHOOSE q \in missing : \A r \in missing : Len(q) <= Len(r)
                     g == [q \in DOMAIN f \cup missing |->
                              IF q \in missing THEN Dir(clock) ELSE f[q]]
                 IN [s EXCEPT !.fs = Touch(g, Parent(first), clock)]

\* fs.copyFile(src, dst)
CopyFileP(st, src, dst) ==
    IF Failed(st) THEN st
    ELSE LET s == Logged(st, Call("copyFile", src, dst, 0))
             f == s.fs
         IN IF ~Exists(f, src) THEN Raise(s, "ENOENT")
            ELSE IF ~IsFile(f, src) THEN Raise(s, "EISDIR")
            ELSE IF Len(dst) > MaxPathLen THEN Raise(s, "ENAMETOOLONG")
            ELSE IF dst = Root \/ IsDir(f, dst) THEN Raise(s, "EISDIR")
            ELSE IF ~Exists(f, Parent(dst)) THEN Raise(s, "ENOENT")
            ELSE IF ~IsDir(f, Parent(dst)) THEN Raise(s, "ENOTDIR")
            ELSE IF src = dst THEN s
            ELSE IF Exists(f, dst)
            THEN [s EXCEPT !.fs = [f EXCEPT ![dst].data = f[src].data, ![dst].mtime = clock]]
            ELSE [s EXCEPT !.fs = Touch(Put(f, dst, File(f[src].data, clock)), Parent(dst), clock)]

\* fs.utimes(p, atime, mtime)
UtimesP(st, p, t) ==
    IF Failed(st) THEN st
    ELSE LET s == Logged(st, Call("utimes", p, Root, t))
         IN IF ~Exists(s.fs, p) THEN Raise(s, "ENOENT")
            ELSE [s EXCEPT !.fs = Touch(s.fs, p, t)]

\* fs.unlink(p)
UnlinkP(st, p) ==
    IF Failed(st) THEN st
    ELSE LET s == Logged(st, Call("unlink", p, Root, 0))
             f == s.fs
         IN IF ~Exists(f, p) THEN Raise(s, "ENOENT")
            ELSE IF IsDir(f, p) THEN Raise(s, "EISDIR")
            ELSE [s EXCEPT !.fs = Touch(Restrict(f, DOMAIN f \ {p}), Parent(p), clock)]

\* fs.rmdir(p) and fs.rmdir(p, {recursive: true})
RmdirP(st, p, recursive) ==
    IF Failed(st) THEN st
    ELSE LET s == Logged(st, Call(IF recursive THEN "rmdir-r" ELSE "rmdir", p, Root, 0))
             f == s.fs
         IN IF ~Exists(f, p) THEN Raise(s, "ENOENT")
            ELSE IF ~IsDir(f, p) THEN Raise(s, "ENOTDIR")
            ELSE IF p = Root THEN Raise(s, "EBUSY")
            ELSE IF ~recursive /\ ChildNames(f, p) # {} THEN Raise(s, "ENOTEMPTY")
            ELSE [s EXCEPT !.fs = Touch(Restrict(f, DOMAIN f \ Subtree(f, p)), Parent(p), clock)]

\* fs.rename(src, dst); crossDevice: the two paths are on different file systems
RenameP(st, src, dst, crossDevice) ==
    IF Failed(st) THEN st
    ELSE LET s == Logged(st, Call("rename", src, dst, 0))
             f == s.fs
             moved == Subtree(f, src)
             kept == DOMAIN f \ (moved \cup Subtree(f, dst))
             target(q) == dst \o SubSeq(q, Len(src) + 1, Len(q))
             g == [q \in kept \cup {target(r) : r \in moved} |->
                      IF q \in kept THEN f[q]
                      ELSE f[src \o SubSeq(q, Len(dst) + 1, Len(q))]]
         IN IF ~Exists(f, src) THEN Raise(s, "ENOENT")
            ELSE IF src = dst THEN s
            ELSE IF crossDevice THEN Raise(s, "EXDEV")
            ELSE IF Len(dst) > MaxPathLen THEN Raise(s, "ENAMETOOLONG")
            ELSE IF ~Exists(f, Parent(dst)) THEN Raise(s, "ENOENT")
            ELSE IF ~IsDir(f, Parent(dst)) THEN Raise(s, "ENOTDIR")
            ELSE IF IsPrefix(src, dst) THEN Raise(s, "EINVAL")
            ELSE IF IsDir(f, src) /\ Exists(f, dst) /\ ~IsDir(f, dst) THEN Raise(s, "ENOTDIR")
            ELSE IF ~IsDir(f, src) /\ IsDir(f, dst) THEN Raise(s, "EISDIR")
            ELSE IF IsDir(f, dst) /\ ChildNames(f, dst) # {} THEN Raise(s, "ENOTEMPTY")
            ELSE IF \E q \in moved : Len(target(q)) > MaxPathLen THEN Raise(s, "ENAMETOOLONG")
            ELSE [s EXCEPT !.fs = Touch(Touch(g, Parent(src), clock), Parent(dst), clock)]

\* fs.writeFile(p, content, {flag}); append: flag 'a'
WriteFileP(st, p, content, append) ==
    IF Failed(st) THEN st
    ELSE LET s == Logged(st, Call("writeFile", p, Root, 0))
             f == s.fs
             data == IF append /\ Exists(f, p) THEN f[p].data \o content ELSE content
         IN IF Len(p) > MaxPathLen THEN Raise(s, "ENAMETOOLONG")
            ELSE IF p = Root \/ IsDir(f, p) THEN Raise(s, "EISDIR")
            ELSE IF ~Exists(f, Parent(p)) THEN Raise(s, "ENOENT")
            ELSE IF ~IsDir(f, Parent(p)) THEN Raise(s, "ENOTDIR")
            ELSE IF Exists(f, p)
            THEN [s EXCEPT !.fs = [f EXCEPT ![p].data = data, ![p].mtime = clock]]
            ELSE [s EXCEPT !.fs = Touch(Put(f, p, File(data, clock)), Parent(p), clock)]

\* fs.stat(p)
StatP(st, p) ==
    IF Failed(st) THEN st
    ELSE LET s == Logged(st, Call("stat", p, Root, 0))
         IN IF ~Exists(s.fs, p) THEN Raise(s, "ENOENT") ELSE s

\* existsSync(p): the call only; its answer is Exists(st.fs, p)
ExistsSyncP(st, p) == IF Failed(st) THEN st ELSE Logged(st, Call("existsSync", p, Root, 0))

\* fs.readdir(p): the call only; its answer is Items(st.fs, p), in the order the
\* file system returns the names
ReaddirP(st, p) ==
    IF Failed(st) THEN st
    ELSE LET s == Logged(st, Call("readdir", p, Root, 0))
         IN IF ~Exists(s.fs, p) THEN Raise(s, "ENOENT")
            ELSE IF ~IsDir(s.fs, p) THEN Raise(s, "ENOTDIR")
            ELSE s
Items(f, p) == SetToSeq(ChildNames(f, p))

(***************************************************************************)
(* fileUtils.copyDirectoryRecursive; the byte total is kept in st.bytes.   *)
(***************************************************************************)
RECURSIVE copyDirectoryRecursive(_, _, _, _)
RECURSIVE CopyItems(_, _, _, _, _)
\* CopyItems that copies the files of a directory and skips its subdirectories
RECURSIVE CopyItems_FilesOnly(_, _, _, _, _)
CopyItems_FilesOnly(st, items, source, destination, preserveTimestamps) ==
    IF items = <<>> \/ Failed(st) THEN st
    ELSE LET sourcePath == Join(source, Head(items))
             destPath == Join(destination, Head(items))
             s1 == StatP(st, sourcePath)
             s2 == IF Failed(s1) \/ IsDir(s1.fs, sourcePath) THEN s1
                   ELSE LET c == CopyFileP(s1, sourcePath, destPath)
                            b == IF Failed(c) THEN c
                                 ELSE [c EXCEPT !.bytes = @ + SizeOf(s1.fs[sourcePath].data)]
                        IN IF preserveTimestamps
                           THEN UtimesP(b, destPath, s1.fs[sourcePath].mtime)
                           ELSE b
         IN CopyItems_FilesOnly(s2, Tail(items), source, destination, preserveTimestamps)

\* CopyItems that does not add the total of a subdirectory to its own
RECURSIVE CopyItems_OwnFilesCounted(_, _, _, _, _)
CopyItems_OwnFilesCounted(st, items, source, destination, preserveTimestamps) ==
    IF items = <<>> \/ Failed(st) THEN st
    ELSE LET sourcePath == Join(source, Head(items))
             destPath == Join(destination, Head(items))
             s1 == StatP(st, sourcePath)
             s2 == IF Failed(s1) THEN s1
                   ELSE IF IsDir(s1.fs, sourcePath)
                   THEN [copyDirectoryRecursive(s1, sourcePath, destPath, preserveTimestamps)
                            EXCEPT !.bytes = s1.bytes]
                   ELSE LET c == CopyFileP(s1, sourcePath, destPath)
                            b == IF Failed(c) THEN c
                                 ELSE [c EXCEPT !.bytes = @ + SizeOf(s1.fs[sourcePath].data)]
                        IN IF preserveTimestamps
                           THEN UtimesP(b, destPath, s1.fs[sourcePath].mtime)
                           ELSE b
         IN CopyItems_OwnFilesCounted(s2, Tail(items), source, destination, preserveTimestamps)

CopyItems(st, items, source, destination, preserveTimestamps) ==
    IF items = <<>> \/ Failed(st) THEN st
    ELSE LET sourcePath == Join(source, Head(items))
             destPath == Join(destination, Head(items))
             s1 == StatP(st, sourcePath)
             s2 == IF Failed(s1) THEN s1
                   ELSE IF IsDir(s1.fs, sourcePath)
                   THEN copyDirectoryRecursive(s1, sourcePath, destPath, preserveTimestamps)
                   ELSE LET c == CopyFileP(s1, sourcePath, destPath)
                            b == IF Failed(c) THEN c
                                 ELSE [c EXCEPT !.bytes = @ + SizeOf(s1.fs[sourcePath].data)]
                        IN IF preserveTimestamps
                           THEN UtimesP(b, destPath, s1.fs[sourcePath].mtime)
                           ELSE b
         IN CopyItems(s2, Tail(items), source, destination, preserveTimestamps)

copyDirectoryRecursive(st, source, destination, preserveTimestamps) ==
    IF Failed(st) THEN st
    ELSE LET s1 == MkdirP(st, destination)
             s2 == ReaddirP(s1, source)
         IN IF Failed(s2) THEN s2
            ELSE CopyItems(s2, Items(s2.fs, source), source, destination, preserveTimestamps)

(***************************************************************************)
(* The state.                                                              *)
(***************************************************************************)
NoReq == [op |-> "none"]
NoOut == [status |-> "none", error |-> "", skipped |-> FALSE, bytes |-> 0, method |-> "",
          files |-> <<>>]

\* the directory tree the records are run against; withD adds the nested file,
\* withH the hidden entries
Tree(withD, withH) ==
    LET base == (Root :> Dir(1))
             @@ (<<N_tmp>> :> Dir(2))
             @@ (<<N_s>> :> Dir(3))
             @@ (<<N_s, N_a_txt>> :> File(<<"ten">>, 4))
             @@ (<<N_s, N_c_log>> :> File(<<"twenty">>, 5))
             @@ (<<N_s, N_d>> :> Dir(6))
             @@ (<<N_s, N_e>> :> Dir(7))
             @@ (<<N_big>> :> File(<<"big", "hello">>, 8))
        d == (<<N_s, N_d, N_g>> :> File(<<"hello">>, 9))
        h == (<<N_s, N_b_txt>> :> File(<<"hello">>, 10))
             @@ (<<N_s, N_h>> :> Dir(11))
             @@ (<<N_s, N_h, N_k>> :> File(<<"world">>, 12))
    IN base @@ (IF withD THEN d ELSE <<>>) @@ (IF withH THEN h ELSE <<>>)

InitTrees == {Tree(withD, withH) : withD \in BOOLEAN, withH \in BOOLEAN}

Init ==
    /\ fs \in InitTrees
    /\ clock = 20
    /\ i = 0
    /\ req = NoReq
    /\ pre = fs
    /\ out = NoOut
    /\ calls = <<>>
    /\ continueOnFail \in BOOLEAN
    /\ returnData = <<>>
    /\ thrown = ""
    /\ stack = <<>>

\* what a record pushes to returnData when it succeeds: one item, for a
\* listing without returnAsArray one item for each file of the result, and none
\* when the record ends with `continue` before pushing; each is paired to the
\* record
SuccessItems(r, okOut, item) ==
    IF okOut.method = "no-output" THEN <<>>
    ELSE IF r.op = "list" /\ ~("returnAsArray" \in DOMAIN r.outputOptions /\ r.outputOptions.returnAsArray)
    THEN [k \in 1..Len(okOut.files) |-> [pairedItem |-> item, error |-> ""]]
    ELSE <<[pairedItem |-> item, error |-> ""]>>
\* what the catch block pushes with continue-on-fail
ErrorItem(message, item) == [pairedItem |-> item, error |-> message]

\* Finish whose catch block never rethrows
Finish_NeverThrows(r, st, okOut) ==
    /\ i < MaxRecords
    /\ thrown = ""
    /\ returnData' = IF ~Failed(st) THEN returnData \o SuccessItems(r, okOut, i)
                     ELSE Append(returnData, ErrorItem(st.err, i))
    /\ thrown' = ""
    /\ UNCHANGED <<continueOnFail, stack>>
    /\ i' = i + 1
    /\ req' = r
    /\ pre' = fs
    /\ fs' = st.fs
    /\ calls' = st.calls
    /\ clock' = clock + 1
    /\ out' = IF Failed(st)
              THEN [NoOut EXCEPT !.status = "error", !.error = st.err]
              ELSE okOut

\* the record's result: done when no exception is pending, the catch block
\* otherwise, which pushes an error item with continue-on-fail and throws the
\* error out of execute without it; thrown is the error that left execute
Finish(r, st, okOut) ==
    /\ i < MaxRecords
    /\ thrown = ""
    /\ returnData' = IF ~Failed(st) THEN returnData \o SuccessItems(r, okOut, i)
                     ELSE IF continueOnFail THEN Append(returnData, ErrorItem(st.err, i))
                     ELSE returnData
    /\ thrown' = IF Failed(st) /\ ~continueOnFail THEN st.err ELSE ""
    /\ UNCHANGED <<continueOnFail, stack>>
    /\ i' = i + 1
    /\ req' = r
    /\ pre' = fs
    /\ fs' = st.fs
    /\ calls' = st.calls
    /\ clock' = clock + 1
    /\ out' = IF Failed(st)
              THEN [NoOut EXCEPT !.status = "error", !.error = st.err]
              ELSE okOut

(***************************************************************************)
(* Parameters of a node.  A collection parameter (safetyOptions,           *)
(* copyOptions, ...) is a record holding only the options that were set.   *)
(***************************************************************************)
IsSet(o, n) == n \in DOMAIN o
\* o.n used as a condition, and o.n || false
Truthy(o, n) == IsSet(o, n) /\ o[n] = TRUE
\* o.n !== false
NotFalse(o, n) == ~IsSet(o, n) \/ o[n] # FALSE
\* o.n || dflt, for a string option
StrOr(o, n, dflt) == IF IsSet(o, n) /\ o[n] # "" THEN o[n] ELSE dflt
\* o.n || dflt, for a number option
NumOr(o, n, dflt) == IF IsSet(o, n) /\ o[n] # 0 THEN o[n] ELSE dflt

\* `${path.basename(p)}.backup.${timestamp}` in backupDir
BackupPath(backupDir, p) == Join(backupDir, Basename(p) \o <<".", "backup", ".", ToString(clock)>>)

\* o.backupDirectory || '/tmp'
BackupDir(o) == IF IsSet(o, "backupDirectory") /\ o.backupDirectory # <<>>
                THEN o.backupDirectory ELSE <<N_tmp>>

(***************************************************************************)
(* DeleteFile.execute, one record.                                         *)
(***************************************************************************)
\* DeleteBackup that makes no backup of a directory and goes on
DeleteBackup_SkipsDirectories(st, p, so) ==
    IF ~Truthy(so, "createBackup") THEN st
    ELSE LET backupPath == BackupPath(BackupDir(so), p)
             s1 == MkdirP(st, Parent(backupPath))
         IN IF IsFile(st.fs, p) THEN CopyFileP(s1, p, backupPath) ELSE s1

\* "Create backup if requested"
DeleteBackup(st, p, so) ==
    IF ~Truthy(so, "createBackup") THEN st
    ELSE LET backupPath == BackupPath(BackupDir(so), p)
             s1 == MkdirP(st, Parent(backupPath))
         IN IF IsFile(st.fs, p) THEN CopyFileP(s1, p, backupPath)
            ELSE IF IsDir(st.fs, p) THEN Throw(s1, "DirectoryBackupNotImplemented")
            ELSE s1

DeleteDeletion(st, p, so) ==
    IF IsFile(st.fs, p) THEN UnlinkP(st, p)
    ELSE IF IsDir(st.fs, p) THEN RmdirP(st, p, Truthy(so, "recursive"))
    ELSE st

\* DeleteGates without the confirmation gate
DeleteGates_NoConfirmation(st, p, deleteMode, so, confirmationProvided) ==
    LET f == st.fs
    IN IF deleteMode = "file" /\ ~IsFile(f, p) THEN Throw(st, "NotAFile")
       ELSE IF deleteMode = "directory" /\ ~IsDir(f, p) THEN Throw(st, "NotADirectory")
       ELSE IF /\ NumOr(so, "maxFileSize", 0) # 0
               /\ IsFile(f, p)
               /\ SizeOf(f[p].data) > so.maxFileSize * 1024 * 1024
            THEN Throw(st, "FileSizeExceedsLimit")
       ELSE st

\* DeleteGates with the confirmation gate before the size gate
DeleteGates_ConfirmationFirst(st, p, deleteMode, so, confirmationProvided) ==
    LET f == st.fs
    IN IF deleteMode = "file" /\ ~IsFile(f, p) THEN Throw(st, "NotAFile")
       ELSE IF deleteMode = "directory" /\ ~IsDir(f, p) THEN Throw(st, "NotADirectory")
       ELSE IF /\ Truthy(so, "requireConfirmation")
               /\ confirmationProvided # StrOr(so, "confirmationText", "DELETE")
            THEN Throw(st, "ConfirmationRequired")
       ELSE IF /\ NumOr(so, "maxFileSize", 0) # 0
               /\ IsFile(f, p)
               /\ SizeOf(f[p].data) > so.maxFileSize * 1024 * 1024
            THEN Throw(st, "FileSizeExceedsLimit")
       ELSE st

DeleteGates(st, p, deleteMode, so, confirmationProvided) ==
    LET f == st.fs
    IN IF deleteMode = "file" /\ ~IsFile(f, p) THEN Throw(st, "NotAFile")
       ELSE IF deleteMode = "directory" /\ ~IsDir(f, p) THEN Throw(st, "NotADirectory")
       ELSE IF /\ NumOr(so, "maxFileSize", 0) # 0
               /\ IsFile(f, p)
               /\ SizeOf(f[p].data) > so.maxFileSize * 1024 * 1024
            THEN Throw(st, "FileSizeExceedsLimit")
       ELSE IF /\ Truthy(so, "requireConfirmation")
               /\ confirmationProvided # StrOr(so, "confirmationText", "DELETE")
            THEN Throw(st, "ConfirmationRequired")
       ELSE st

\* DeleteRecord that takes a missing path for an error whatever skipIfNotExists says
DeleteRecord_NeverSkips(r) ==
    LET p == r.filePath
        so == r.safetyOptions
        st0 == Logged(Start(fs), Call("existsSync", p, Root, 0))
    IN IF ~Exists(fs, p)
       THEN Finish(r, Throw(st0, "PathNotFound"), NoOut)
       ELSE LET s1 == Logged(st0, Call("stat", p, Root, 0))
                s2 == DeleteGates(s1, p, r.deleteMode, so, r.confirmationProvided)
                s3 == DeleteBackup(s2, p, so)
                s4 == DeleteDeletion(s3, p, so)
            IN Finish(r, s4, [NoOut EXCEPT !.status = "ok", !.method = "deleted"])

DeleteRecord(r) ==
    LET p == r.filePath
        so == r.safetyOptions
        st0 == Logged(Start(fs), Call("existsSync", p, Root, 0))
    IN IF ~Exists(fs, p)
       THEN IF Truthy(so, "skipIfNotExists")
            THEN Finish(r, st0, [NoOut EXCEPT !.status = "ok", !.skipped = TRUE])
            ELSE Finish(r, Throw(st0, "PathNotFound"), NoOut)
       ELSE LET s1 == Logged(st0, Call("stat", p, Root, 0))
                s2 == DeleteGates(s1, p, r.deleteMode, so, r.confirmationProvided)
                s3 == DeleteBackup(s2, p, so)
                s4 == DeleteDeletion(s3, p, so)
            IN Finish(r, s4, [NoOut EXCEPT !.status = "ok", !.method = "deleted"])

\* the option collections a record may carry: the options of o that are on, and extra
Pick(o, extra) == LET on == {n \in DOMAIN o : o[n]} IN [n \in on |-> TRUE] @@ extra

\* confirmation not required; required and given; required and not given
ConfirmCases ==
    {[so |-> <<>>, given |-> ""],
     [so |-> [requireConfirmation |-> TRUE], given |-> "DELETE"],
     [so |-> [requireConfirmation |-> TRUE], given |-> ""]}
\* the same with a phrase of the user's own, and with the option set to false
PhraseCases ==
    {[so |-> [requireConfirmation |-> TRUE, confirmationText |-> "yes"], given |-> "yes"],
     [so |-> [requireConfirmation |-> TRUE, confirmationText |-> "yes"], given |-> "DELETE"],
     [so |-> [requireConfirmation |-> FALSE], given |-> ""]}
SizeOpts == {<<>>, [maxFileSize |-> 1]}
DeletePaths == {<<N_s, N_a_txt>>, <<N_big>>, <<N_s, N_e>>, <<N_s>>, <<N_m>>}
DeleteModes == {"auto", "file", "directory"}

DeleteRequest(p, m, so, c) ==
    [op |-> "delete", filePath |-> p, deleteMode |-> m, safetyOptions |-> so,
     confirmationProvided |-> c]

DeleteRequests ==
    {DeleteRequest(p, m, Pick(o, c.so @@ z), c.given) :
        p \in DeletePaths, m \in DeleteModes,
        o \in [{"recursive", "createBackup", "skipIfNotExists"} -> BOOLEAN],
        c \in ConfirmCases, z \in SizeOpts}
    \cup {DeleteRequest(p, m, c.so, c.given) :
        p \in DeletePaths, m \in DeleteModes, c \in PhraseCases}

DeleteStep == \E r \in DeleteRequests : DeleteRecord(r)

\* the tree with every kind of entry, before the first record, in an execution
\* with continue-on-fail, where every record of the batch is processed
InitFull == Init /\ fs = Tree(TRUE, TRUE) /\ continueOnFail

SpecDelete == InitFull /\ [][DeleteStep]_vars

(***************************************************************************)
(* CopyFile.execute, one record.                                           *)
(***************************************************************************)
\* "Create destination directory if needed"
CreateDestDir(st, createDestDir, dst) ==
    IF Failed(st) \/ ~createDestDir THEN st
    ELSE LET destDir == Parent(dst)
             s1 == ExistsSyncP(st, destDir)
         IN IF ~Exists(s1.fs, destDir) THEN MkdirP(s1, destDir) ELSE s1

\* DestinationCheck that lets an existing destination through
DestinationCheck_NoConflict(st, overwrite, dst) ==
    IF Failed(st) THEN st ELSE ExistsSyncP(st, dst)

\* "Check if destination exists"
DestinationCheck(st, overwrite, dst) ==
    IF Failed(st) THEN st
    ELSE LET s1 == ExistsSyncP(st, dst)
         IN IF Exists(s1.fs, dst) /\ ~overwrite THEN Throw(s1, "DestinationExists") ELSE s1

\* ModeCheck that accepts every kind
ModeCheck_AcceptsAll(st, mode, src) == st

\* "Validate copy mode" and "Validate move mode"
ModeCheck(st, mode, src) ==
    IF Failed(st) THEN st
    ELSE IF mode = "file" /\ ~IsFile(st.fs, src) THEN Throw(st, "NotAFile")
    ELSE IF mode = "directory" /\ ~IsDir(st.fs, src) THEN Throw(st, "NotADirectory")
    ELSE st

\* CopyPerform that, without recursive, makes the directory and leaves it empty
CopyPerform_EmptyDirectory(st, src, dst, preserveTimestamps, recursive) ==
    IF Failed(st) THEN st
    ELSE IF IsFile(st.fs, src)
    THEN LET c == CopyFileP(st, src, dst)
             b == IF Failed(c) THEN c ELSE [c EXCEPT !.bytes = SizeOf(st.fs[src].data)]
         IN IF preserveTimestamps THEN UtimesP(b, dst, st.fs[src].mtime) ELSE b
    ELSE IF IsDir(st.fs, src) /\ recursive
    THEN copyDirectoryRecursive(st, src, dst, preserveTimestamps)
    ELSE IF IsDir(st.fs, src) /\ ~recursive
    THEN MkdirP(st, dst)
    ELSE st

\* "Perform copy operation"
CopyPerform(st, src, dst, preserveTimestamps, recursive) ==
    IF Failed(st) THEN st
    ELSE IF IsFile(st.fs, src)
    THEN LET c == CopyFileP(st, src, dst)
             b == IF Failed(c) THEN c ELSE [c EXCEPT !.bytes = SizeOf(st.fs[src].data)]
         IN IF preserveTimestamps THEN UtimesP(b, dst, st.fs[src].mtime) ELSE b
    ELSE IF IsDir(st.fs, src) /\ recursive
    THEN copyDirectoryRecursive(st, src, dst, preserveTimestamps)
    ELSE IF IsDir(st.fs, src) /\ ~recursive
    THEN Throw(st, "CannotCopyDirectoryWithoutRecursive")
    ELSE st

CopyRecord(r) ==
    LET co == r.copyOptions
        src == r.sourcePath
        dst == r.destinationPath
        overwrite == Truthy(co, "overwrite")
        preserveTimestamps == NotFalse(co, "preserveTimestamps")
        createDestDir == NotFalse(co, "createDestDir")
        copyMode == StrOr(co, "copyMode", "auto")
        recursive == NotFalse(co, "recursive")
        s0 == ExistsSyncP(Start(fs), src)
        s1 == IF ~Exists(fs, src) THEN Throw(s0, "SourceNotFound") ELSE StatP(s0, src)
        s2 == ModeCheck(s1, copyMode, src)
        s3 == DestinationCheck(s2, overwrite, dst)
        s4 == CreateDestDir(s3, createDestDir, dst)
        s5 == CopyPerform(s4, src, dst, preserveTimestamps, recursive)
        s6 == StatP(s5, dst)
    IN Finish(r, s6, [NoOut EXCEPT !.status = "ok", !.method = "copied", !.bytes = s6.bytes])

CopyRequest(src, dst, co) ==
    [op |-> "copy", sourcePath |-> src, destinationPath |-> dst, copyOptions |-> co]

CopySources == {<<N_s, N_a_txt>>, <<N_s>>, <<N_s, N_e>>, <<N_m>>}
CopyDestinations ==
    {<<N_t>>, <<N_n, N_t>>, <<N_s, N_c_log>>, <<N_tmp>>, <<N_s, N_e, N_t>>}
CopyOptionSets ==
    {(IF o.overwrite THEN [overwrite |-> TRUE] ELSE <<>>)
        @@ (IF o.preserveTimestamps THEN <<>> ELSE [preserveTimestamps |-> FALSE])
        @@ (IF o.recursive THEN <<>> ELSE [recursive |-> FALSE]) :
            o \in [{"overwrite", "preserveTimestamps", "recursive"} -> BOOLEAN]}
    \cup {[createDestDir |-> FALSE], [createDestDir |-> FALSE, overwrite |-> TRUE],
          [copyMode |-> "file"], [copyMode |-> "directory"]}
CopyRequests ==
    {CopyRequest(src, dst, co) :
        src \in CopySources, dst \in CopyDestinations, co \in CopyOptionSets}

CopyStep == \E r \in CopyRequests : CopyRecord(r)

SpecCopy == InitFull /\ [][CopyStep]_vars

(***************************************************************************)
(* MoveFile.execute, one record.  crossDevice is the record's environment: *)
(* source and destination lie on different file systems, so that rename    *)
(* raises EXDEV.                                                           *)
(***************************************************************************)
\* "Create backup if requested"
MoveBackup(st, createBackup, backupDirectory, src) ==
    IF Failed(st) \/ ~createBackup THEN st
    ELSE LET backupPath == BackupPath(backupDirectory, src)
             info == Join(Parent(backupPath), Basename(backupPath) \o <<".", "info">>)
             s1 == MkdirP(st, Parent(backupPath))
         IN IF IsFile(st.fs, src) THEN CopyFileP(s1, src, backupPath)
            ELSE IF IsDir(st.fs, src) THEN WriteFileP(s1, info, <<"info">>, FALSE)
            ELSE s1

\* MoveFallback that leaves the source in place
MoveFallback_NoDelete(st, src, dst) ==
    IF IsFile(st.fs, src) THEN CopyFileP(st, src, dst)
    ELSE IF IsDir(st.fs, src) THEN copyDirectoryRecursive(st, src, dst, FALSE)
    ELSE st

\* MoveFallback that deletes the source whether or not the copy went through
MoveFallback_DeleteAnyway(st, src, dst) ==
    IF IsFile(st.fs, src) THEN UnlinkP([CopyFileP(st, src, dst) EXCEPT !.err = ""], src)
    ELSE IF IsDir(st.fs, src)
    THEN RmdirP([copyDirectoryRecursive(st, src, dst, FALSE) EXCEPT !.err = ""], src, TRUE)
    ELSE st

\* "Fallback to copy + delete"
MoveFallback(st, src, dst) ==
    IF IsFile(st.fs, src) THEN UnlinkP(CopyFileP(st, src, dst), src)
    ELSE IF IsDir(st.fs, src) THEN RmdirP(copyDirectoryRecursive(st, src, dst, FALSE), src, TRUE)
    ELSE st

\* MovePerform that falls back whatever fallbackCopy says
MovePerform_AlwaysFallback(st, src, dst, fallbackCopy, crossDevice) ==
    IF Failed(st) THEN st
    ELSE LET renamed == RenameP(st, src, dst, crossDevice)
             caught == [renamed EXCEPT !.err = ""]
         IN IF ~Failed(renamed) THEN renamed ELSE MoveFallback(caught, src, dst)

\* "Perform move operation": the try block and its catch
MovePerform(st, src, dst, fallbackCopy, crossDevice) ==
    IF Failed(st) THEN st
    ELSE LET renamed == RenameP(st, src, dst, crossDevice)
             caught == [renamed EXCEPT !.err = ""]
         IN IF ~Failed(renamed) THEN renamed
            ELSE IF fallbackCopy THEN MoveFallback(caught, src, dst)
            ELSE Throw(caught, "MoveFailed: " \o renamed.err)

MoveMethod(st, src, dst, crossDevice) ==
    IF Failed(RenameP(st, src, dst, crossDevice)) THEN "copy-delete" ELSE "atomic"

MoveRecord(r) ==
    LET mo == r.moveOptions
        src == r.sourcePath
        dst == r.destinationPath
        overwrite == Truthy(mo, "overwrite")
        createDestDir == NotFalse(mo, "createDestDir")
        moveMode == StrOr(mo, "moveMode", "auto")
        fallbackCopy == NotFalse(mo, "fallbackCopy")
        createBackup == Truthy(mo, "createBackup")
        s0 == ExistsSyncP(Start(fs), src)
        s1 == IF ~Exists(fs, src) THEN Throw(s0, "SourceNotFound") ELSE StatP(s0, src)
        s2 == ModeCheck(s1, moveMode, src)
        s3 == DestinationCheck(s2, overwrite, dst)
        s4 == CreateDestDir(s3, createDestDir, dst)
        s5 == MoveBackup(s4, createBackup, BackupDir(mo), src)
        s6 == MovePerform(s5, src, dst, fallbackCopy, r.crossDevice)
        s7 == StatP(s6, dst)
    IN Finish(r, s7, [NoOut EXCEPT !.status = "ok",
                                   !.method = MoveMethod(s5, src, dst, r.crossDevice)])

MoveRequest(src, dst, mo, x) ==
    [op |-> "move", sourcePath |-> src, destinationPath |-> dst, moveOptions |-> mo,
     crossDevice |-> x]

MoveSources == {<<N_s, N_a_txt>>, <<N_s>>, <<N_s, N_e>>, <<N_m>>}
MoveDestinations ==
    {<<N_t>>, <<N_n, N_t>>, <<N_s, N_c_log>>, <<N_tmp>>, <<N_s, N_e, N_t>>, <<N_s>>}
MoveOptionSets ==
    {(IF o.overwrite THEN [overwrite |-> TRUE] ELSE <<>>)
        @@ (IF o.fallbackCopy THEN <<>> ELSE [fallbackCopy |-> FALSE]) :
            o \in [{"overwrite", "fallbackCopy"} -> BOOLEAN]}
    \cup {[createBackup |-> TRUE], [createBackup |-> TRUE, overwrite |-> TRUE],
          [createDestDir |-> FALSE], [moveMode |-> "file"], [moveMode |-> "directory"]}
MoveRequests ==
    {MoveRequest(src, dst, mo, x) :
        src \in MoveSources, dst \in MoveDestinations, mo \in MoveOptionSets,
        x \in BOOLEAN}

MoveStep == \E r \in MoveRequests : MoveRecord(r)

SpecMove == InitFull /\ [][MoveStep]_vars

\* records of CopyFile and of MoveFile
TransferNext == CopyStep \/ MoveStep

SpecTransfer == InitFull /\ [][TransferNext]_vars

(***************************************************************************)
(* WriteFile.execute, one record.  The input record's json is r.json, a    *)
(* record of the properties it holds.                                      *)
(***************************************************************************)
\* "Get content based on source": the content, or the exception raised
WriteContent(st, r) ==
    IF Failed(st) THEN st
    ELSE IF r.contentSource = "text" THEN st
    ELSE IF r.contentSource = "property"
    THEN IF ~IsSet(r.json, r.propertyName) THEN Throw(st, "PropertyNotFound") ELSE st
    ELSE Throw(st, "InvalidContentSource")
ContentOf(r) ==
    IF r.contentSource = "text" THEN r.content
    ELSE IF r.contentSource = "property" /\ IsSet(r.json, r.propertyName)
    THEN r.json[r.propertyName]
    ELSE <<>>

\* CreateOnlyCheck that never refuses
CreateOnlyCheck_Overwrites(st, writeMode, p) == st

\* "Check if file exists for different write modes"
CreateOnlyCheck(st, writeMode, p) ==
    IF writeMode = "create" /\ Exists(st.fs, p) THEN Throw(st, "FileExistsCreateOnly") ELSE st

WriteRecord(r) ==
    LET p == r.filePath
        ao == r.additionalOptions
        createParentDirs == NotFalse(ao, "createParentDirs")
        createBackup == Truthy(ao, "createBackup")
        fileExists == Exists(fs, p)
        s0 == ExistsSyncP(Start(fs), p)
        s1 == CreateOnlyCheck(s0, r.writeMode, p)
        s2 == CreateDestDir(s1, createParentDirs, p)
        s3 == IF createBackup /\ fileExists
              THEN CopyFileP(s2, p, BackupPath(Parent(p), p)) ELSE s2
        s4 == WriteContent(s3, r)
        s5 == WriteFileP(s4, p, ContentOf(r), r.writeMode = "append")
        s6 == StatP(s5, p)
    IN Finish(r, s6, [NoOut EXCEPT !.status = "ok", !.method = "written",
                                   !.bytes = IF Failed(s6) THEN 0 ELSE SizeOf(s6.fs[p].data)])

WriteRequest(p, cs, wm, c, j, ao) ==
    [op |-> "write", filePath |-> p, contentSource |-> cs, writeMode |-> wm,
     content |-> c, propertyName |-> "data", json |-> j, additionalOptions |-> ao]

WritePaths == {<<N_t>>, <<N_n, N_t>>, <<N_s, N_a_txt>>, <<N_s, N_e>>}
WriteModes == {"overwrite", "append", "create"}
WriteSources ==
    {[cs |-> "text", c |-> <<"hello">>, j |-> <<>>],
     [cs |-> "text", c |-> <<"world">>, j |-> <<>>],
     [cs |-> "property", c |-> <<>>, j |-> [data |-> <<"ten">>]],
     [cs |-> "property", c |-> <<>>, j |-> <<>>],
     [cs |-> "url", c |-> <<>>, j |-> <<>>]}
WriteOptionSets ==
    {<<>>, [createParentDirs |-> FALSE], [createBackup |-> TRUE],
     [createParentDirs |-> FALSE, createBackup |-> TRUE]}
WriteRequests ==
    {WriteRequest(p, x.cs, wm, x.c, x.j, ao) :
        p \in WritePaths, wm \in WriteModes, x \in WriteSources, ao \in WriteOptionSets}

WriteStep == \E r \in WriteRequests : WriteRecord(r)

SpecWrite == InitFull /\ [][WriteStep]_vars

(***************************************************************************)
(* Strings: a name read character by character.                            *)
(***************************************************************************)
\* the characters, in the order of their codes
Alphabet ==
    <<".", "0", "1", "2", "3", "4", "5", "6", "7", "8", "9",
      "A", "B", "C", "D", "E", "F", "G", "H", "I", "J", "K", "L", "M",
      "N", "O", "P", "Q", "R", "S", "T", "U", "V", "W", "X", "Y", "Z",
      "a", "b", "c", "d", "e", "f", "g", "h", "i", "j", "k", "l", "m",
      "n", "o", "p", "q", "r", "s", "t", "u", "v", "w", "x", "y", "z">>
Code(c) == IF \E k \in DOMAIN Alphabet : Alphabet[k] = c
           THEN CHOOSE k \in DOMAIN Alphabet : Alphabet[k] = c ELSE 0
\* the characters of a token
Chars(t) == CASE t = "txt" -> <<"t", "x", "t">>
              [] t = "TXT" -> <<"T", "X", "T">>
              [] t = "log" -> <<"l", "o", "g">>
              [] t = "tmp" -> <<"t", "m", "p">>
              [] t = "big" -> <<"b", "i", "g">>
              [] OTHER -> <<t>>
RECURSIVE Spell(_)
Spell(n) == IF n = <<>> THEN <<>> ELSE Chars(Head(n)) \o Spell(Tail(n))
\* String.prototype.toLowerCase, on a spelled string
LowerChar(c) == IF Code(c) \in 12..37 THEN Alphabet[Code(c) + 26] ELSE c
ToLowerCase(w) == [k \in DOMAIN w |-> LowerChar(w[k])]
\* a < b on strings: by code, the first difference decides, a prefix comes first
RECURSIVE StrLess(_, _)
StrLess(a, b) ==
    IF b = <<>> THEN FALSE
    ELSE IF a = <<>> THEN TRUE
    ELSE IF Head(a) # Head(b) THEN Code(Head(a)) < Code(Head(b))
    ELSE StrLess(Tail(a), Tail(b))
\* String.prototype.trim, on a spelled string
RECURSIVE TrimStart(_)
TrimStart(w) == IF w # <<>> /\ Head(w) = " " THEN TrimStart(Tail(w)) ELSE w
RECURSIVE TrimEnd(_)
TrimEnd(w) == IF w # <<>> /\ w[Len(w)] = " " THEN TrimEnd(SubSeq(w, 1, Len(w) - 1)) ELSE w
Trim(w) == TrimEnd(TrimStart(w))
\* item.startsWith('.')
StartsWithDot(item) == Len(item) > 0 /\ item[1] = "."
\* path.extname(item), spelled: from the last dot, unless that dot starts the name
ExtName(item) ==
    LET w == Spell(item)
        dots == {k \in 2..Len(w) : w[k] = "."}
    IN IF dots = {} THEN <<>>
       ELSE SubSeq(w, CHOOSE k \in dots : \A j \in dots : j <= k, Len(w))

(***************************************************************************)
(* ListFiles: getFilesRecursively, passesFileFilters, sortFiles and one    *)
(* record of execute.  The walk's result is kept in st.files.              *)
(***************************************************************************)
\* passesFileFilters that compares the extension as it is written
passesFileFilters_CaseSensitive(filePath, stats, filterOptions) ==
    /\ IsSet(filterOptions, "extensionFilter") /\ filterOptions.extensionFilter # <<>>
          => LET extensions == {ToLowerCase(Trim(filterOptions.extensionFilter[k])) :
                                   k \in DOMAIN filterOptions.extensionFilter}
             IN ExtName(Basename(filePath)) \in extensions
    /\ IsSet(filterOptions, "namePattern") /\ filterOptions.namePattern # ""
          => \E k \in DOMAIN Basename(filePath) :
                Basename(filePath)[k] = filterOptions.namePattern
    /\ ~(NumOr(filterOptions, "minSize", 0) # 0 /\ SizeOf(stats.data) < filterOptions.minSize)
    /\ ~(NumOr(filterOptions, "maxSize", 0) # 0 /\ SizeOf(stats.data) > filterOptions.maxSize)

\* filterOptions.extensionFilter is the list of the pieces of the string between
\* its commas, each a spelled string; namePattern is a pattern without
\* metacharacters, matched by the names that hold it as a token
passesFileFilters(filePath, stats, filterOptions) ==
    /\ IsSet(filterOptions, "extensionFilter") /\ filterOptions.extensionFilter # <<>>
          => LET extensions == {ToLowerCase(Trim(filterOptions.extensionFilter[k])) :
                                   k \in DOMAIN filterOptions.extensionFilter}
                 fileExt == ToLowerCase(ExtName(Basename(filePath)))
             IN fileExt \in extensions
    /\ IsSet(filterOptions, "namePattern") /\ filterOptions.namePattern # ""
          => \E k \in DOMAIN Basename(filePath) :
                Basename(filePath)[k] = filterOptions.namePattern
    /\ ~(NumOr(filterOptions, "minSize", 0) # 0 /\ SizeOf(stats.data) < filterOptions.minSize)
    /\ ~(NumOr(filterOptions, "maxSize", 0) # 0 /\ SizeOf(stats.data) > filterOptions.maxSize)

FileInfo(item, fullPath, stats) ==
    [name |-> item, path |-> fullPath,
     type |-> IF stats.kind = "dir" THEN "directory" ELSE "file",
     extension |-> IF stats.kind = "file" THEN ExtName(item) ELSE <<>>,
     size |-> SizeOf(stats.data), created |-> stats.btime, modified |-> stats.mtime,
     isFile |-> stats.kind = "file", isDirectory |-> stats.kind = "dir"]

\* SkipHidden that looks at nothing
SkipHidden_Never(includeHidden, item) == FALSE

\* "Skip hidden files if not included"
SkipHidden(includeHidden, item) == ~includeHidden /\ StartsWithDot(item)

\* "Apply list mode filter"
SkipByListMode(listMode, stats) ==
    \/ listMode = "files" /\ stats.kind # "file"
    \/ listMode = "directories" /\ stats.kind # "dir"

RECURSIVE getFilesRecursively(_, _, _)
RECURSIVE ListItems(_, _, _, _)
\* the loop over the names of one directory; o holds recursive, includeHidden,
\* listMode and filterOptions, and the directories that the process may not read
ListItems(st, items, dirPath, o) ==
    IF items = <<>> \/ Failed(st) THEN st
    ELSE LET item == Head(items)
             fullPath == Join(dirPath, item)
             s1 == StatP(st, fullPath)
             stats == s1.fs[fullPath]
             s2 == IF Failed(s1) THEN s1
                   ELSE IF SkipHidden(o.includeHidden, item) THEN s1
                   ELSE IF SkipByListMode(o.listMode, stats) THEN s1
                   ELSE IF stats.kind = "file"
                           /\ ~passesFileFilters(fullPath, stats, o.filterOptions) THEN s1
                   ELSE LET pushed == [s1 EXCEPT !.files = Append(@, FileInfo(item, fullPath, stats))]
                        IN IF o.recursive /\ stats.kind = "dir"
                           THEN getFilesRecursively(pushed, fullPath, o)
                           ELSE pushed
         IN ListItems(s2, Tail(items), dirPath, o)

getFilesRecursively(st, dirPath, o) ==
    IF Failed(st) THEN st
    ELSE LET s1 == ReaddirP(st, dirPath)
         IN IF Failed(s1) THEN s1
            ELSE IF dirPath \in o.unreadable THEN Raise(s1, "EACCES")
            ELSE ListItems(s1, Items(s1.fs, dirPath), dirPath, o)

\* SortKey that takes names and extensions as they are written
SortKey_CaseSensitive(a, sortBy) ==
    CASE sortBy = "size" -> a.size
      [] sortBy = "modified" -> a.modified
      [] sortBy = "created" -> a.created
      [] sortBy = "extension" -> a.extension
      [] OTHER -> Spell(a.name)

\* the comparison function of sortFiles: -1, 0 or 1
SortKey(a, sortBy) ==
    CASE sortBy = "size" -> a.size
      [] sortBy = "modified" -> a.modified
      [] sortBy = "created" -> a.created
      [] sortBy = "extension" -> ToLowerCase(a.extension)
      [] OTHER -> ToLowerCase(Spell(a.name))
KeyLess(x, y, sortBy) ==
    IF sortBy \in {"size", "modified", "created"} THEN x < y ELSE StrLess(x, y)
Compare(a, b, sortBy, sortOrder) ==
    LET aValue == SortKey(a, sortBy)
        bValue == SortKey(b, sortBy)
    IN IF KeyLess(aValue, bValue, sortBy) THEN (IF sortOrder = "asc" THEN -1 ELSE 1)
       ELSE IF KeyLess(bValue, aValue, sortBy) THEN (IF sortOrder = "asc" THEN 1 ELSE -1)
       ELSE 0

\* Array.prototype.sort with that function: a stable sort
RECURSIVE InsertSorted(_, _, _, _)
InsertSorted(x, sorted, sortBy, sortOrder) ==
    IF sorted = <<>> THEN <<x>>
    ELSE IF Compare(sorted[Len(sorted)], x, sortBy, sortOrder) <= 0 THEN Append(sorted, x)
    ELSE Append(InsertSorted(x, SubSeq(sorted, 1, Len(sorted) - 1), sortBy, sortOrder),
                sorted[Len(sorted)])
RECURSIVE sortFiles(_, _, _)
sortFiles(files, sortBy, sortOrder) ==
    IF files = <<>> THEN <<>>
    ELSE InsertSorted(files[Len(files)],
                      sortFiles(SubSeq(files, 1, Len(files) - 1), sortBy, sortOrder),
                      sortBy, sortOrder)

ListRecord(r) ==
    LET p == r.directoryPath
        fo == r.filterOptions
        oo == r.outputOptions
        o == [recursive |-> r.recursive, includeHidden |-> r.includeHidden,
              listMode |-> r.listMode, filterOptions |-> fo, unreadable |-> r.unreadable]
        s0 == ExistsSyncP(Start(fs), p)
        s1 == IF ~Exists(fs, p) THEN Throw(s0, "DirectoryNotFound") ELSE StatP(s0, p)
        s2 == IF ~Failed(s1) /\ ~IsDir(fs, p) THEN Throw(s1, "NotADirectory") ELSE s1
        s3 == getFilesRecursively(s2, p, o)
        sortedFiles == sortFiles(s3.files, StrOr(oo, "sortBy", "name"), StrOr(oo, "sortOrder", "asc"))
        maxFiles == NumOr(fo, "maxFiles", 0)
        finalFiles == IF maxFiles > 0 /\ maxFiles < Len(sortedFiles)
                      THEN SubSeq(sortedFiles, 1, maxFiles) ELSE sortedFiles
    IN Finish(r, s3, [NoOut EXCEPT !.status = "ok", !.method = "listed", !.files = finalFiles])

\* unreadable is the record's environment: the directories whose listing the
\* file system refuses to the process (EACCES)
ListRequest(p, lm, rec, hid, fo, oo, unreadable) ==
    [op |-> "list", directoryPath |-> p, listMode |-> lm, recursive |-> rec,
     includeHidden |-> hid, filterOptions |-> fo, outputOptions |-> oo,
     unreadable |-> unreadable]

\* a directory of the trees; a hidden one and a nested one; a missing path and a
\* regular file
ListPaths == {<<N_s>>}
NestedPaths == {<<N_s, N_h>>, <<N_s, N_d>>}
NotListable == {<<N_m>>, <<N_big>>}
ListModes == {"files", "directories", "both"}
\* filterOptions and outputOptions
ListOptionSets ==
    {[fo |-> x.fo, oo |-> x.oo @@ [returnAsArray |-> TRUE]] : x \in
        {[fo |-> <<>>, oo |-> <<>>],
         [fo |-> [extensionFilter |-> <<<<".", "t", "x", "t">>>>], oo |-> <<>>],
         [fo |-> [extensionFilter |-> <<<<".", "L", "O", "G">>, <<" ", ".", "t", "x", "t", " ">>>>],
          oo |-> <<>>],
         [fo |-> [minSize |-> 10], oo |-> <<>>],
         [fo |-> [maxSize |-> 10], oo |-> <<>>],
         [fo |-> [namePattern |-> "a"], oo |-> <<>>],
         [fo |-> [maxFiles |-> 2], oo |-> [sortBy |-> "size", sortOrder |-> "desc"]],
         [fo |-> <<>>, oo |-> [sortBy |-> "modified", sortOrder |-> "desc"]],
         [fo |-> <<>>, oo |-> [sortBy |-> "extension"]]}}
Unreadable == {{<<N_s, N_d>>}, {<<N_s, N_e>>}}
ListRequests ==
    {ListRequest(p, lm, rec, hid, x.fo, x.oo, {}) :
        p \in ListPaths, lm \in ListModes, rec \in BOOLEAN, hid \in BOOLEAN,
        x \in ListOptionSets}
    \cup {ListRequest(p, lm, FALSE, hid, fo, [returnAsArray |-> TRUE], {}) :
        p \in NestedPaths, lm \in ListModes, hid \in BOOLEAN,
        fo \in {<<>>, [extensionFilter |-> <<<<".", "t", "x", "t">>>>]}}
    \cup {ListRequest(p, "both", rec, FALSE, <<>>, <<>>, {}) :
        p \in NotListable \cup ListPaths, rec \in BOOLEAN}
    \cup {ListRequest(<<N_s>>, lm, rec, FALSE, <<>>, <<>>, u) :
        lm \in ListModes, rec \in BOOLEAN, u \in Unreadable}

ListStep == \E r \in ListRequests : ListRecord(r)

\* any of the trees, in an execution with continue-on-fail
InitList == Init /\ continueOnFail

SpecList == InitList /\ [][ListStep]_vars

(***************************************************************************)
(* The three nodes that take a mode (deleteMode, copyMode, moveMode), with  *)
(* every mode on files, directories and a missing path.                    *)
(***************************************************************************)
ModeDeletes ==
    {r \in DeleteRequests :
        r.safetyOptions \in {<<>>, [recursive |-> TRUE]} /\ r.confirmationProvided = ""}
ModeCopies ==
    {r \in CopyRequests :
        /\ r.copyOptions \in {<<>>, [copyMode |-> "file"], [copyMode |-> "directory"]}
        /\ r.destinationPath \in {<<N_t>>, <<N_n, N_t>>, <<N_tmp>>}}
ModeMoves ==
    {r \in MoveRequests :
        /\ r.moveOptions \in {<<>>, [moveMode |-> "file"], [moveMode |-> "directory"]}
        /\ r.destinationPath \in {<<N_t>>, <<N_n, N_t>>, <<N_tmp>>}
        /\ ~r.crossDevice}

ModeStep ==
    \/ \E r \in ModeDeletes : DeleteRecord(r)
    \/ \E r \in ModeCopies : CopyRecord(r)
    \/ \E r \in ModeMoves : MoveRecord(r)

SpecModes == InitFull /\ [][ModeStep]_vars

(***************************************************************************)
(* sortFiles on its own, applied once to a list of entries.                *)
(***************************************************************************)
\* entries as getFilesRecursively builds them: two that differ in everything,
\* names and extensions in upper case, equal sizes and times, a directory
SortEntries ==
    {FileInfo(<<"b">>, <<N_s, <<"b">>>>, [kind |-> "file", data |-> <<"hello">>, mtime |-> 2, btime |-> 4]),
     FileInfo(<<"a">>, <<N_s, <<"a">>>>, [kind |-> "file", data |-> <<"ten">>, mtime |-> 3, btime |-> 1]),
     FileInfo(<<"B", ".", "TXT">>, <<N_s, <<"B", ".", "TXT">>>>,
              [kind |-> "file", data |-> <<"hello">>, mtime |-> 1, btime |-> 4]),
     FileInfo(N_c_log, <<N_s, N_c_log>>, [kind |-> "file", data |-> <<"twenty">>, mtime |-> 3, btime |-> 2]),
     FileInfo(<<"A">>, <<N_s, <<"A">>>>, [kind |-> "dir", data |-> <<>>, mtime |-> 5, btime |-> 3])}
SortInputs == UNION {[1..n -> SortEntries] : n \in 0..MaxFiles}
SortFields == {"name", "size", "modified", "created", "extension"}
SortOrders == {"asc", "desc"}

SortStep ==
    /\ i = 0
    /\ \E files \in SortInputs, sortBy \in SortFields, sortOrder \in SortOrders :
          /\ req' = [op |-> "sort", files |-> files, sortBy |-> sortBy, sortOrder |-> sortOrder]
          /\ out' = [NoOut EXCEPT !.status = "ok", !.method = "sorted",
                                  !.files = sortFiles(files, sortBy, sortOrder)]
    /\ i' = 1
    /\ UNCHANGED <<fs, clock, pre, calls, continueOnFail, returnData, thrown, stack>>

SpecSort == InitFull /\ [][SortStep]_vars

(***************************************************************************)
(* The per-record loop of execute, with and without continue-on-fail, over *)
(* a few records of every node: some that succeed and some that fail.      *)
(***************************************************************************)
BatchDeletes ==
    {r \in DeleteRequests :
        /\ r.safetyOptions \in {<<>>, [skipIfNotExists |-> TRUE], [createBackup |-> TRUE]}
        /\ r.deleteMode \in {"auto", "file"}
        /\ r.filePath \in {<<N_s, N_a_txt>>, <<N_s>>, <<N_m>>}}
BatchCopies ==
    {r \in CopyRequests :
        /\ r.copyOptions \in {<<>>, [recursive |-> FALSE]}
        /\ r.sourcePath \in {<<N_s, N_a_txt>>, <<N_s>>, <<N_m>>}
        /\ r.destinationPath \in {<<N_t>>, <<N_tmp>>}}
BatchMoves ==
    {r \in MoveRequests :
        /\ r.moveOptions \in {<<>>, [fallbackCopy |-> FALSE]}
        /\ r.sourcePath \in {<<N_s, N_a_txt>>, <<N_m>>}
        /\ r.destinationPath \in {<<N_t>>, <<N_tmp>>}}
BatchWrites ==
    {r \in WriteRequests :
        /\ r.additionalOptions = <<>>
        /\ r.writeMode \in {"create", "append"}
        /\ r.filePath \in {<<N_t>>, <<N_s, N_e>>}
        /\ r.content # <<"world">>}
BatchLists ==
    {r \in ListRequests : r.filterOptions = <<>> /\ r.outputOptions = <<>> /\ r.recursive}

BatchStep ==
    \/ \E r \in BatchDeletes : DeleteRecord(r)
    \/ \E r \in BatchCopies : CopyRecord(r)
    \/ \E r \in BatchMoves : MoveRecord(r)
    \/ \E r \in BatchWrites : WriteRecord(r)
    \/ \E r \in BatchLists : ListRecord(r)

\* the full tree, in an execution with or without continue-on-fail
InitBatch == Init /\ fs = Tree(TRUE, TRUE)

SpecBatch == InitBatch /\ [][BatchStep]_vars

(***************************************************************************)
(* CopyFile and WriteFile on records that their validations reject, and on *)
(* records that pass.                                                      *)
(***************************************************************************)
ValidatedCopies ==
    {r \in CopyRequests :
        /\ r.copyOptions \in {<<>>, [recursive |-> FALSE]}
        /\ r.sourcePath \in {<<N_s>>, <<N_s, N_a_txt>>}
        /\ r.destinationPath \in {<<N_t>>, <<N_n, N_t>>}}
ValidatedWrites ==
    {r \in WriteRequests :
        /\ r.additionalOptions \in {<<>>, [createBackup |-> TRUE]}
        /\ r.writeMode = "overwrite"
        /\ r.filePath \in {<<N_n, N_t>>, <<N_s, N_a_txt>>}}

ValidationStep ==
    \/ \E r \in ValidatedCopies : CopyRecord(r)
    \/ \E r \in ValidatedWrites : WriteRecord(r)

SpecValidation == InitFull /\ [][ValidationStep]_vars

(***************************************************************************)
(* DeleteFile on every kind of entry: the tree holds, besides files and    *)
(* directories, an entry that is neither (a FIFO).                         *)
(***************************************************************************)
N_p == <<"p">>
Other(t) == [kind |-> "other", data |-> <<>>, mtime |-> t, btime |-> t]
TreeOther == Tree(TRUE, TRUE) @@ (<<N_p>> :> Other(13))

InitOther ==
    /\ fs = TreeOther
    /\ clock = 20
    /\ i = 0
    /\ req = NoReq
    /\ pre = fs
    /\ out = NoOut
    /\ calls = <<>>
    /\ continueOnFail = TRUE
    /\ returnData = <<>>
    /\ thrown = ""
    /\ stack = <<>>

KindDeletes ==
    {DeleteRequest(p, m, so, "") :
        p \in {<<N_p>>, <<N_s, N_a_txt>>, <<N_s, N_e>>, <<N_s>>}, m \in DeleteModes,
        so \in {<<>>, [recursive |-> TRUE], [createBackup |-> TRUE]}}

KindsStep == \E r \in KindDeletes : DeleteRecord(r)

SpecKinds == InitOther /\ [][KindsStep]_vars

(***************************************************************************)
(* CreateDirectory.execute, one record.                                    *)
(***************************************************************************)
\* fs.mkdir(p, {mode}), without recursive
MkdirOneP(st, p) ==
    IF Failed(st) THEN st
    ELSE LET s == Logged(st, Call("mkdir", p, Root, 0))
             f == s.fs
         IN IF Len(p) > MaxPathLen THEN Raise(s, "ENAMETOOLONG")
            ELSE IF Exists(f, p) THEN Raise(s, "EEXIST")
            ELSE IF ~Exists(f, Parent(p)) THEN Raise(s, "ENOENT")
            ELSE IF ~IsDir(f, Parent(p)) THEN Raise(s, "ENOTDIR")
            ELSE [s EXCEPT !.fs = Touch(Put(f, p, Dir(clock)), Parent(p), clock)]

\* parentsOnly ? path.dirname(absolutePath) : absolutePath
CreateTarget(r) ==
    IF Truthy(r.creationOptions, "parentsOnly") THEN Parent(r.directoryPath) ELSE r.directoryPath

CreateRecord(r) ==
    LET co == r.creationOptions
        recursive == NotFalse(co, "recursive")
        skipIfExists == NotFalse(co, "skipIfExists")
        targetPath == CreateTarget(r)
        s0 == ExistsSyncP(Start(fs), targetPath)
    IN IF Exists(fs, targetPath)
       THEN IF skipIfExists
            THEN Finish(r, s0, [NoOut EXCEPT !.status = "ok", !.skipped = TRUE])
            ELSE Finish(r, Throw(s0, "DirectoryExists"), NoOut)
       ELSE LET s1 == IF recursive THEN MkdirP(s0, targetPath) ELSE MkdirOneP(s0, targetPath)
                s2 == StatP(s1, targetPath)
            IN Finish(r, s2, [NoOut EXCEPT !.status = "ok", !.method = "created"])

CreateRequest(p, co) == [op |-> "create", directoryPath |-> p, creationOptions |-> co]

\* absent, absent below an absent parent, a directory, a file, below a file
CreatePaths ==
    {<<N_t>>, <<N_n, N_t>>, <<N_s>>, <<N_big>>, <<N_big, N_t>>, <<N_s, N_a_txt, N_t>>}
CreateOptionSets ==
    {(IF o.recursive THEN <<>> ELSE [recursive |-> FALSE])
        @@ (IF o.skipIfExists THEN <<>> ELSE [skipIfExists |-> FALSE])
        @@ (IF o.parentsOnly THEN [parentsOnly |-> TRUE] ELSE <<>>) :
            o \in [{"recursive", "skipIfExists", "parentsOnly"} -> BOOLEAN]}
CreateRequests == {CreateRequest(p, co) : p \in CreatePaths, co \in CreateOptionSets}

CreateStep == \E r \in CreateRequests : CreateRecord(r)

SpecCreate == InitFull /\ [][CreateStep]_vars

(***************************************************************************)
(* FileExists.execute, one record, on a tree that holds symbolic links.    *)
(* A link is an entry of kind "link" whose data is the path it points to.  *)
(* existsSync, fs.stat and fs.realpath follow the links; statError is the  *)
(* record's environment: the error that fs.stat raises on a path that      *)
(* existsSync found ("" when it raises none); denied, the accesses that    *)
(* fs.access refuses.                                                      *)
(***************************************************************************)
N_l == <<"l">>
N_ld == <<"ld">>
N_lx == <<"lx">>
Link(target, t) == [kind |-> "link", data |-> target, mtime |-> t, btime |-> t]
\* links to a file, to a directory, and to nothing
TreeLinks ==
    Tree(TRUE, TRUE)
        @@ (<<N_l>> :> Link(<<N_s, N_a_txt>>, 14))
        @@ (<<N_ld>> :> Link(<<N_s>>, 15))
        @@ (<<N_lx>> :> Link(<<N_m>>, 16))

\* the parameter left empty: a path of one name without a character
Blank == <<<<>>>>

\* fs.realpath: the path with every link on the way replaced by what it points
\* to; ok is false when a name on the way is missing
RECURSIVE RealPathFrom(_, _, _)
RealPathFrom(f, done, rest) ==
    IF rest = <<>> THEN [ok |-> TRUE, path |-> done]
    ELSE LET next == Append(done, Head(rest))
         IN IF ~Exists(f, next) THEN [ok |-> FALSE, path |-> next]
            ELSE IF f[next].kind = "link" THEN RealPathFrom(f, Root, f[next].data \o Tail(rest))
            ELSE RealPathFrom(f, next, Tail(rest))
RealPath(f, p) == RealPathFrom(f, Root, p)
\* existsSync on such a tree
PathExists(f, p) == RealPath(f, p).ok
\* what fs.stat returns: the entry that the path leads to, links followed
StatsOf(f, p) == f[RealPath(f, p).path]
\* stats.isSymbolicLink()
IsSymbolicLink(stats) == stats.kind = "link"

\* "Check type requirements"
TypeMatches(checkType, stats) ==
    CASE checkType = "file" -> stats.kind = "file"
      [] checkType = "directory" -> stats.kind = "dir"
      [] OTHER -> TRUE

\* "Check access permissions if requested": one call of fs.access for each
RECURSIVE AccessCalls(_, _, _)
AccessCalls(st, p, checks) ==
    IF checks = <<>> THEN st
    ELSE AccessCalls(Logged(st, Call("access", p, Root, 0)), p, Tail(checks))
AccessPermissions(checks, denied) ==
    [a \in {checks[k] : k \in DOMAIN checks} |-> a \notin denied]

\* "Add detailed information if requested"
Details(stats, realPath) ==
    [type |-> IF stats.kind = "dir" THEN "directory"
              ELSE IF stats.kind = "file" THEN "file" ELSE "other",
     created |-> stats.btime, modified |-> stats.mtime,
     isFile |-> stats.kind = "file", isDirectory |-> stats.kind = "dir",
     isSymbolicLink |-> IsSymbolicLink(stats)]
        @@ (IF realPath.ok THEN [realPath |-> realPath.path] ELSE <<>>)

\* the record's result: no item at all after `continue`
NoItem == [NoOut EXCEPT !.status = "ok", !.method = "no-output"]

\* ExistsMissing that takes a missing path for an error, as the other nodes do
ExistsMissing_IsError(st) == Throw(st, "PathNotFound")

\* `if (exists)` has no else: a missing path raises nothing
ExistsMissing(st) == st

ExistsRecord(r) ==
    LET p == r.filePath
        co == r.checkOptions
        oo == r.outputOptions
        exists == PathExists(fs, p)
        s0 == ExistsSyncP(Start(fs), p)
        \* the stat call, whose error the inner catch swallows
        s1 == IF ~exists THEN ExistsMissing(s0)
              ELSE Logged(s0, [Call("stat", p, Root, 0) EXCEPT !.err = r.statError])
        hasStats == exists /\ r.statError = ""
        stats == IF hasStats THEN StatsOf(fs, p) ELSE Dir(0)
        checkType == StrOr(co, "checkType", "any")
        typeMatches == IF hasStats THEN TypeMatches(checkType, stats) ELSE TRUE
        resolved == hasStats /\ Truthy(co, "resolveSymlinks") /\ IsSymbolicLink(stats)
        s2 == IF resolved THEN Logged(s1, Call("realpath", p, Root, 0)) ELSE s1
        realPath == IF resolved THEN RealPath(fs, p) ELSE [ok |-> FALSE, path |-> Root]
        accessChecks == IF IsSet(co, "checkAccess") THEN co.checkAccess ELSE <<>>
        s3 == IF hasStats THEN AccessCalls(s2, p, accessChecks) ELSE s2
        accessPermissions == IF hasStats THEN AccessPermissions(accessChecks, r.denied) ELSE <<>>
        finalExists == exists /\ typeMatches
        result == [NoOut EXCEPT !.status = "ok", !.method = "checked"]
                    @@ [exists |-> finalExists, pathExists |-> exists,
                        typeMatches |-> typeMatches, checkType |-> checkType,
                        details |-> IF Truthy(co, "includeDetails") /\ hasStats
                                    THEN Details(stats, realPath) ELSE <<>>,
                        access |-> accessPermissions,
                        inputData |-> Truthy(oo, "includeInputData")]
    IN IF p = Blank THEN Finish(r, Throw(Start(fs), "FilePathRequired"), NoOut)
       ELSE IF Truthy(oo, "onlyIfExists") /\ ~finalExists THEN Finish(r, s3, NoItem)
       ELSE Finish(r, s3, result)

ExistsRequest(p, co, oo, statError, denied) ==
    [op |-> "exists", filePath |-> p, checkOptions |-> co, outputOptions |-> oo,
     statError |-> statError, denied |-> denied]

\* a file, a directory, a missing path, and the three links
ExistsPaths == {<<N_s, N_a_txt>>, <<N_s>>, <<N_m>>, <<N_l>>, <<N_ld>>, <<N_lx>>}
ExistsCheckSets ==
    {<<>>, [checkType |-> "file"], [checkType |-> "directory", includeDetails |-> TRUE],
     [includeDetails |-> TRUE, resolveSymlinks |-> TRUE]}
ExistsOutputSets == {<<>>, [onlyIfExists |-> TRUE], [includeInputData |-> TRUE]}
ExistsRequests ==
    {ExistsRequest(p, co, oo, "", {}) :
        p \in ExistsPaths, co \in ExistsCheckSets, oo \in ExistsOutputSets}
    \cup {ExistsRequest(p, co, oo, "EACCES", {}) :
        p \in {<<N_s, N_a_txt>>, <<N_l>>, <<N_m>>},
        co \in {[checkType |-> "file"], [checkType |-> "directory", includeDetails |-> TRUE]},
        oo \in {<<>>, [onlyIfExists |-> TRUE]}}
    \cup {ExistsRequest(<<N_s, N_a_txt>>, [checkAccess |-> <<"readable", "writable">>], <<>>, "", denied) :
        denied \in {{}, {"writable"}}}
    \cup {ExistsRequest(Blank, <<>>, <<>>, "", {})}

ExistsStep == \E r \in ExistsRequests : ExistsRecord(r)

\* the tree with the links, in an execution with or without continue-on-fail
InitLinks ==
    /\ fs = TreeLinks
    /\ clock = 20
    /\ i = 0
    /\ req = NoReq
    /\ pre = fs
    /\ out = NoOut
    /\ calls = <<>>
    /\ continueOnFail \in BOOLEAN
    /\ returnData = <<>>
    /\ thrown = ""
    /\ stack = <<>>

SpecExists == InitLinks /\ [][ExistsStep]_vars

(***************************************************************************)
(* fileUtils.getFilesRecursively, applied once.  A pattern is a regular    *)
(* expression without metacharacters, spelled: it matches the strings that *)
(* hold it.  unreadable is the environment: the directories whose listing  *)
(* the file system refuses.                                                *)
(***************************************************************************)
\* maxDepth: number = 10
DefaultMaxDepth == 10

\* the string of a path: its names, each after a slash
RECURSIVE PathString(_)
PathString(p) == IF p = <<>> THEN <<>> ELSE <<"/">> \o Spell(Head(p)) \o PathString(Tail(p))
\* new RegExp(pattern).test(w)
RegexTest(pattern, w) ==
    \E k \in 1..(Len(w) - Len(pattern) + 1) : SubSeq(w, k, k + Len(pattern) - 1) = pattern
\* patterns.some(p => regex.test(item) || regex.test(fullPath))
SomeMatch(patterns, item, fullPath) ==
    \E k \in DOMAIN patterns :
        RegexTest(patterns[k], Spell(item)) \/ RegexTest(patterns[k], PathString(fullPath))

\* DepthReached that stops one level too late
DepthReached_OneMore(currentDepth, maxDepth) == currentDepth > maxDepth

\* currentDepth >= maxDepth
DepthReached(currentDepth, maxDepth) == currentDepth >= maxDepth

RECURSIVE fileUtils_getFilesRecursively(_, _, _, _, _, _, _)
RECURSIVE WalkItems(_, _, _, _, _, _, _, _)
\* the loop over the names of one directory, inside the try block
WalkItems(st, items, dirPath, maxDepth, currentDepth, patterns, excludePatterns, unreadable) ==
    IF items = <<>> \/ Failed(st) THEN st
    ELSE LET item == Head(items)
             fullPath == Join(dirPath, item)
             s1 == StatP(st, fullPath)
             stats == s1.fs[fullPath]
             fileInfo == [path |-> fullPath, name |-> item, isDirectory |-> stats.kind = "dir"]
             s2 == IF Failed(s1) THEN s1
                   ELSE IF SomeMatch(excludePatterns, item, fullPath) THEN s1
                   ELSE IF /\ patterns # <<>>
                           /\ ~SomeMatch(patterns, item, fullPath)
                           /\ stats.kind # "dir" THEN s1
                   ELSE LET pushed == [s1 EXCEPT !.files = Append(@, fileInfo)]
                        IN IF stats.kind = "dir"
                           THEN fileUtils_getFilesRecursively(pushed, fullPath, maxDepth,
                                    currentDepth + 1, patterns, excludePatterns, unreadable)
                           ELSE pushed
         IN WalkItems(s2, Tail(items), dirPath, maxDepth, currentDepth, patterns,
                      excludePatterns, unreadable)

\* the results are appended to st.files; the catch block swallows the error of
\* readdir or stat and returns what the directory gave before it
fileUtils_getFilesRecursively(st, dirPath, maxDepth, currentDepth, patterns, excludePatterns, unreadable) ==
    IF DepthReached(currentDepth, maxDepth) THEN st
    ELSE LET s1 == ReaddirP(st, dirPath)
             s2 == IF Failed(s1) THEN s1
                   ELSE IF dirPath \in unreadable THEN Raise(s1, "EACCES")
                   ELSE WalkItems(s1, Items(s1.fs, dirPath), dirPath, maxDepth, currentDepth,
                                  patterns, excludePatterns, unreadable)
         IN [s2 EXCEPT !.err = ""]

\* the root, a directory, a nested one, a missing path and a file
WalkRoots == {Root, <<N_s>>, <<N_s, N_d>>, <<N_m>>, <<N_big>>}
WalkDepths == {0, 1, 2, 3, DefaultMaxDepth}
WalkPatterns == {<<>>, <<<<"t", "x", "t">>>>}
WalkExcludes == {<<>>, <<<<"d">>>>}
WalkUnreadable == {{}, {<<N_s, N_d>>}}

WalkStep ==
    /\ i = 0
    /\ \E dirPath \in WalkRoots, maxDepth \in WalkDepths, patterns \in WalkPatterns,
          excludePatterns \in WalkExcludes, unreadable \in WalkUnreadable :
          LET st == fileUtils_getFilesRecursively(Start(fs), dirPath, maxDepth, 0, patterns,
                                                  excludePatterns, unreadable)
          IN /\ req' = [op |-> "walk", dirPath |-> dirPath, maxDepth |-> maxDepth,
                        patterns |-> patterns, excludePatterns |-> excludePatterns,
                        unreadable |-> unreadable]
             /\ out' = [NoOut EXCEPT !.status = "ok", !.method = "walked", !.files = st.files]
             /\ calls' = st.calls
    /\ i' = 1
    /\ pre' = fs
    /\ UNCHANGED <<fs, clock, continueOnFail, returnData, thrown, stack>>

SpecWalk == InitList /\ [][WalkStep]_vars

(***************************************************************************)
(* CopyFile.execute on a directory, followed call by call: one step for    *)
(* each turn of the loop of copyDirectoryRecursive and for each return.    *)
(* stack holds the activations of the function, the innermost last, each   *)
(* with the items its loop has still to copy.  The byte total and the log  *)
(* of the calls are left out: they have no part in what is called next.    *)
(***************************************************************************)
\* RestOf that never leaves the item it is on
RestOf_Same(items) == items

\* what `for (const item of items)` has still to do after one item
RestOf(items) == Tail(items)

Frame(source, destination, items) ==
    [source |-> source, destination |-> destination, items |-> items]
Running == [NoOut EXCEPT !.status = "running"]

\* the first two calls of copyDirectoryRecursive: mkdir of the destination,
\* readdir of the source
EnterCopy(st, source, destination) == ReaddirP(MkdirP(st, destination), source)

\* the end of the record: its item is pushed, by the catch block when it failed
Ended(st, okOut) ==
    /\ stack' = <<>>
    /\ returnData' = IF ~Failed(st) THEN Append(returnData, [pairedItem |-> i, error |-> ""])
                     ELSE IF continueOnFail THEN Append(returnData, ErrorItem(st.err, i))
                     ELSE returnData
    /\ thrown' = IF Failed(st) /\ ~continueOnFail THEN st.err ELSE ""
    /\ i' = i + 1
    /\ fs' = st.fs
    /\ clock' = clock + 1
    /\ out' = IF Failed(st)
              THEN [NoOut EXCEPT !.status = "error", !.error = st.err]
              ELSE okOut
Copied == [NoOut EXCEPT !.status = "ok", !.method = "copied"]

\* the record up to the first turn of the loop
RunBegin(r) ==
    LET co == r.copyOptions
        src == r.sourcePath
        dst == r.destinationPath
    IN /\ i < MaxRecords
       /\ thrown = ""
       /\ out.status # "running"
       /\ req' = r
       /\ pre' = fs
       /\ UNCHANGED <<calls, continueOnFail>>
       /\ \E s0 \in {ExistsSyncP(Start(fs), src)} :
          \E s1 \in {IF ~Exists(fs, src) THEN Throw(s0, "SourceNotFound") ELSE StatP(s0, src)} :
          \E s2 \in {ModeCheck(s1, StrOr(co, "copyMode", "auto"), src)} :
          \E s3 \in {DestinationCheck(s2, Truthy(co, "overwrite"), dst)} :
          \E s4 \in {CreateDestDir(s3, NotFalse(co, "createDestDir"), dst)} :
          \E walked \in {~Failed(s4) /\ IsDir(fs, src) /\ NotFalse(co, "recursive")} :
          \E s5 \in {IF walked THEN EnterCopy(s4, src, dst)
                     ELSE StatP(CopyPerform(s4, src, dst, NotFalse(co, "preserveTimestamps"),
                                            NotFalse(co, "recursive")), dst)} :
             IF walked /\ ~Failed(s5)
             THEN /\ stack' = <<Frame(src, dst, Items(s5.fs, src))>>
                  /\ fs' = s5.fs
                  /\ out' = Running
                  /\ UNCHANGED <<i, clock, returnData, thrown>>
             ELSE Ended(s5, Copied)

\* one turn of the loop of the innermost activation
RunItem ==
    /\ out.status = "running"
    /\ stack # <<>>
    /\ stack[Len(stack)].items # <<>>
    /\ LET top == stack[Len(stack)]
           item == Head(top.items)
           sourcePath == Join(top.source, item)
           destPath == Join(top.destination, item)
           s1 == StatP(Start(fs), sourcePath)
           isDirectory == ~Failed(s1) /\ IsDir(fs, sourcePath)
           s2 == IF Failed(s1) THEN s1
                 ELSE IF isDirectory THEN EnterCopy(s1, sourcePath, destPath)
                 ELSE LET c == CopyFileP(s1, sourcePath, destPath)
                      IN IF NotFalse(req.copyOptions, "preserveTimestamps")
                         THEN UtimesP(c, destPath, fs[sourcePath].mtime)
                         ELSE c
           rest == [stack EXCEPT ![Len(stack)].items = RestOf(@)]
       IN /\ UNCHANGED <<req, pre, calls, continueOnFail>>
          /\ IF Failed(s2) THEN Ended(s2, Copied)
             ELSE /\ fs' = s2.fs
                  /\ stack' = IF isDirectory
                              THEN Append(rest, Frame(sourcePath, destPath, Items(s2.fs, sourcePath)))
                              ELSE rest
                  /\ UNCHANGED <<i, clock, returnData, thrown, out>>

\* the innermost activation returns; the outermost returns to execute, which
\* stats the destination and pushes the item
RunReturn ==
    /\ out.status = "running"
    /\ stack # <<>>
    /\ stack[Len(stack)].items = <<>>
    /\ UNCHANGED <<req, pre, calls, continueOnFail>>
    /\ IF Len(stack) > 1
       THEN /\ stack' = SubSeq(stack, 1, Len(stack) - 1)
            /\ UNCHANGED <<fs, i, clock, returnData, thrown, out>>
       ELSE Ended(StatP(Start(fs), req.destinationPath), Copied)

\* directories copied to a free path, below a missing directory, and into
\* themselves
RunRequests ==
    {r \in CopyRequests :
        /\ r.sourcePath \in {<<N_s>>, <<N_s, N_e>>}
        /\ r.destinationPath \in {<<N_t>>, <<N_n, N_t>>, <<N_s, N_e, N_t>>}
        /\ r.copyOptions \in {<<>>, [preserveTimestamps |-> FALSE]}}

RunNext == (\E r \in RunRequests : RunBegin(r)) \/ RunItem \/ RunReturn

\* every call of the file system returns, and the function goes on after it
SpecRun == InitFull /\ [][RunNext]_vars /\ WF_vars(RunNext)

(***************************************************************************)
(* All the nodes together.                                                 *)
(***************************************************************************)
Next == DeleteStep \/ CopyStep \/ MoveStep \/ WriteStep \/ ListStep \/ SortStep

Spec == Init /\ [][Next]_vars

(***************************************************************************)
(* What the claims speak about.                                            *)
(***************************************************************************)
Ops(cs) == {cs[k].op : k \in 1..Len(cs)}
Destructive == {"unlink", "rmdir", "rmdir-r"}
\* the subtree at p is in g what it was in f
SameSubtree(f, g, p) == Subtree(f, p) = Subtree(g, p) /\ \A q \in Subtree(f, p) : g[q] = f[q]

Phrase(so) == IF IsSet(so, "confirmationText") /\ so.confirmationText # ""
              THEN so.confirmationText ELSE "DELETE"
ConfirmationMismatch(r) ==
    /\ IsSet(r.safetyOptions, "requireConfirmation")
    /\ r.safetyOptions.requireConfirmation
    /\ r.confirmationProvided # Phrase(r.safetyOptions)

\* C1: a delete record whose confirmation is required and whose confirmation
\* string differs from the phrase fails with an error, runs no unlink or rmdir,
\* and leaves the target, with everything below it, as it was.
C1_ConfirmationMismatchKeepsPath ==
    (req.op = "delete" /\ Exists(pre, req.filePath) /\ ConfirmationMismatch(req))
        => /\ out.status = "error"
           /\ Ops(calls) \cap Destructive = {}
           /\ SameSubtree(pre, fs, req.filePath)

C1_Witness ==
    /\ req.op = "delete"
    /\ ConfirmationMismatch(req)
    /\ IsDir(pre, req.filePath) /\ ChildNames(pre, req.filePath) # {}
    /\ IsSet(req.safetyOptions, "recursive")
    /\ out.error = "ConfirmationRequired"
    /\ Exists(fs, req.filePath)

\* the gates that reject the record, told from the record and the file system
\* before it: 1 existence, 2 max size, 3 confirmation, 4 backup
RejectingGates(r, f) ==
    LET so == r.safetyOptions
        p == r.filePath
    IN {g \in 1..4 :
          \/ g = 1 /\ ~Exists(f, p) /\ ~(IsSet(so, "skipIfNotExists") /\ so.skipIfNotExists)
          \/ g = 2 /\ IsSet(so, "maxFileSize") /\ so.maxFileSize > 0 /\ IsFile(f, p)
                   /\ SizeOf(f[p].data) > so.maxFileSize * 1048576
          \/ g = 3 /\ Exists(f, p) /\ ConfirmationMismatch(r)
          \/ g = 4 /\ IsSet(so, "createBackup") /\ so.createBackup /\ IsDir(f, p)}
GateError(g) == CASE g = 1 -> "PathNotFound"
                  [] g = 2 -> "FileSizeExceedsLimit"
                  [] g = 3 -> "ConfirmationRequired"
                  [] g = 4 -> "DirectoryBackupNotImplemented"
ModeAccepts(r, f) ==
    /\ r.deleteMode = "file" => IsFile(f, r.filePath)
    /\ r.deleteMode = "directory" => IsDir(f, r.filePath)
Earliest(G) == CHOOSE g \in G : \A h \in G : g <= h

\* C2: the gates of a delete record are evaluated in the order existence, max
\* size, confirmation, backup: a record that passes the delete-mode validation
\* (or has no target) and is rejected by some gates reports the error of the
\* earliest of them; unlink or rmdir runs only when no gate rejects, as the last
\* call, and after the backup copy when a backup was asked for.
C2_GateOrder ==
    req.op = "delete" =>
        LET R == RejectingGates(req, pre)
        IN /\ (R # {} /\ (1 \in R \/ ModeAccepts(req, pre)))
                => out.status = "error" /\ out.error = GateError(Earliest(R))
           /\ \A k \in 1..Len(calls) :
                calls[k].op \in Destructive
                    => /\ R = {}
                       /\ k = Len(calls)
                       /\ Truthy(req.safetyOptions, "createBackup")
                            => \E j \in 1..(k - 1) : calls[j].op = "copyFile"

\* a big file, with the size gate, a confirmation mismatch and a backup all in force
C2_Witness ==
    /\ req.op = "delete"
    /\ {2, 3} \subseteq RejectingGates(req, pre)
    /\ Truthy(req.safetyOptions, "createBackup")
    /\ out.error = "FileSizeExceedsLimit"

IsTransfer(r) == r.op \in {"copy", "move"}
TransferOptions(r) == IF r.op = "copy" THEN r.copyOptions ELSE r.moveOptions
TransferMode(r) ==
    LET o == TransferOptions(r)
        n == IF r.op = "copy" THEN "copyMode" ELSE "moveMode"
    IN IF IsSet(o, n) THEN o[n] ELSE "auto"
OverwriteDisabled(r) ==
    ~(IsSet(TransferOptions(r), "overwrite") /\ TransferOptions(r).overwrite)
\* the source is there and of the kind the mode asks for
SourceAccepted(r, f) ==
    /\ Exists(f, r.sourcePath)
    /\ TransferMode(r) = "file" => IsFile(f, r.sourcePath)
    /\ TransferMode(r) = "directory" => IsDir(f, r.sourcePath)
Writes == {"mkdir", "copyFile", "rename", "writeFile", "utimes", "unlink", "rmdir", "rmdir-r"}

\* C3: a copy or move record with overwrite disabled and an existing destination
\* fails before any write: no primitive that changes the file system is called
\* and the file system is what it was; the error is the conflict error whenever
\* the source passed the checks that come first.
C3_ConflictBeforeAnyWrite ==
    (IsTransfer(req) /\ OverwriteDisabled(req) /\ Exists(pre, req.destinationPath))
        => /\ out.status = "error"
           /\ Ops(calls) \cap Writes = {}
           /\ fs = pre
           /\ SourceAccepted(req, pre) => out.error = "DestinationExists"

\* a move with a backup asked for, onto an existing file
C3_Witness ==
    /\ req.op = "move"
    /\ OverwriteDisabled(req)
    /\ IsSet(req.moveOptions, "createBackup")
    /\ IsDir(pre, req.sourcePath)
    /\ IsFile(pre, req.destinationPath)
    /\ out.error = "DestinationExists"

\* C4: a create-only write to a path that exists fails with the conflict error
\* and changes nothing, so that of two successive create-only writes to one path
\* the content of the first stays.
C4_CreateOnlyKeepsContent ==
    (req.op = "write" /\ req.writeMode = "create" /\ Exists(pre, req.filePath))
        => /\ out.status = "error"
           /\ out.error = "FileExistsCreateOnly"
           /\ fs = pre

\* the second record of a batch writes "world", create-only, to the path that the
\* first record created with "hello"
C4_Witness ==
    /\ req.op = "write" /\ req.writeMode = "create"
    /\ i = 2
    /\ ~Exists(Tree(TRUE, TRUE), req.filePath)
    /\ IsFile(pre, req.filePath) /\ pre[req.filePath].data = <<"hello">>
    /\ ContentOf(req) = <<"world">>
    /\ out.error = "FileExistsCreateOnly"
    /\ fs[req.filePath].data = <<"hello">>

\* everything below src in f is below dst in g, with the same kind and content
ContainsCopy(f, src, g, dst) ==
    \A q \in Subtree(f, src) :
        LET d == dst \o SubSeq(q, Len(src) + 1, Len(q))
        IN Exists(g, d) /\ g[d].kind = f[q].kind /\ g[d].data = f[q].data

FallbackEnabled(r) == ~(IsSet(r.moveOptions, "fallbackCopy") /\ ~r.moveOptions.fallbackCopy)
\* the calls of the copy-then-delete path: the listing of a source directory,
\* the copy of a source file to its place under the destination, a deletion (the
\* backup copies the source elsewhere, and makes directories only)
IsFallbackCall(c, r) ==
    \/ c.op \in {"unlink", "rmdir", "rmdir-r", "readdir"}
    \/ /\ c.op = "copyFile"
       /\ IsPrefix(r.sourcePath, c.path)
       /\ c.to = r.destinationPath \o SubSeq(c.path, Len(r.sourcePath) + 1, Len(c.path))
RenameCalls(cs) == {k \in 1..Len(cs) : cs[k].op = "rename"}

\* C5: a move record calls rename at most once and before any call of the
\* copy-then-delete path; those calls are made only after rename raised an error
\* and with fallbackCopy enabled; with fallbackCopy disabled a rename error ends
\* the record with an error that wraps it: nothing is called after the rename, no
\* call of the copy-then-delete path is made and the source keeps its content.
C5_RenameFirst ==
    req.op = "move" =>
        /\ Cardinality(RenameCalls(calls)) <= 1
        /\ \A k \in 1..Len(calls) :
              IsFallbackCall(calls[k], req)
                  => /\ FallbackEnabled(req)
                     /\ \E j \in RenameCalls(calls) : j < k /\ calls[j].err # ""
        /\ \A j \in RenameCalls(calls) :
              (calls[j].err # "" /\ ~FallbackEnabled(req))
                  => /\ out.status = "error"
                     /\ out.error = "MoveFailed: " \o calls[j].err
                     /\ j = Len(calls)
                     /\ \A k \in 1..Len(calls) : ~IsFallbackCall(calls[k], req)
                     /\ ContainsCopy(pre, req.sourcePath, fs, req.sourcePath)
        /\ (out.status = "ok" /\ out.method = "copy-delete") => FallbackEnabled(req)

\* a directory whose rename fails across devices, fallback disabled
C5_Witness ==
    /\ req.op = "move"
    /\ ~FallbackEnabled(req)
    /\ req.crossDevice
    /\ IsDir(pre, req.sourcePath) /\ ChildNames(pre, req.sourcePath) # {}
    /\ out.error = "MoveFailed: EXDEV"
    /\ ~Exists(fs, req.destinationPath)

\* C6: when the rename of a move record fails and the copy-then-delete path runs
\* to its end, the destination holds the whole content of the source (for a
\* directory every relative path of its subtree) and the source is gone.
C6_FallbackMovesEverything ==
    (req.op = "move" /\ out.status = "ok" /\ out.method = "copy-delete")
        => /\ ContainsCopy(pre, req.sourcePath, fs, req.destinationPath)
           /\ ~Exists(fs, req.sourcePath)

\* a directory with a subdirectory, moved across devices
C6_Witness ==
    /\ req.op = "move" /\ out.status = "ok" /\ out.method = "copy-delete"
    /\ req.crossDevice
    /\ \E q \in Subtree(pre, req.sourcePath) : Len(q) = Len(req.sourcePath) + 2
    /\ ~Exists(pre, req.destinationPath)

CopiedDirectory(r, f) ==
    /\ r.op = "copy"
    /\ IsDir(f, r.sourcePath)
    /\ ~(IsSet(r.copyOptions, "recursive") /\ ~r.copyOptions.recursive)

\* C7: after a recursive copy of a directory to a destination that did not
\* exist, the relative paths below the destination are those below the source,
\* empty subdirectories included, each of the kind it has in the source.
C7_CopyKeepsRelativePaths ==
    (CopiedDirectory(req, pre) /\ out.status = "ok" /\ ~Exists(pre, req.destinationPath))
        => /\ RelPaths(fs, req.destinationPath) = RelPaths(fs, req.sourcePath)
           /\ RelPaths(fs, req.sourcePath) = RelPaths(pre, req.sourcePath)
           /\ \A q \in RelPaths(fs, req.sourcePath) :
                fs[req.destinationPath \o q].kind = fs[req.sourcePath \o q].kind

\* a tree with files, a subdirectory holding a file, and an empty subdirectory
C7_Witness ==
    /\ CopiedDirectory(req, pre) /\ out.status = "ok"
    /\ ~Exists(pre, req.destinationPath)
    /\ \E q \in RelPaths(pre, req.sourcePath) : Len(q) = 2
    /\ \E q \in RelPaths(pre, req.sourcePath) :
          IsDir(pre, req.sourcePath \o q) /\ ChildNames(pre, req.sourcePath \o q) = {}

PreserveTimestamps(r) ==
    ~(IsSet(r.copyOptions, "preserveTimestamps") /\ ~r.copyOptions.preserveTimestamps)
\* the directories of the subtree at p, relative to p, p itself included
RelDirs(f, p) == {q \in RelPaths(f, p) \cup {<<>>} : IsDir(f, p \o q)}

\* C8: after a recursive copy of a directory with preserveTimestamps, every
\* copied directory, the destination itself and each nested one, has the
\* modification time of its source directory, set by a utimes call made after the
\* last call for its children.
C8_DirectoryTimestampsPreserved ==
    (CopiedDirectory(req, pre) /\ PreserveTimestamps(req) /\ out.status = "ok")
        => \A q \in RelDirs(pre, req.sourcePath) :
              LET d == req.destinationPath \o q
              IN /\ fs[d].mtime = pre[req.sourcePath \o q].mtime
                 /\ \E k \in 1..Len(calls) :
                      /\ calls[k].op = "utimes" /\ calls[k].path = d
                      /\ \A j \in (k + 1)..Len(calls) :
                            ~(calls[j].op \in Writes /\ IsPrefix(d, calls[j].to))

\* the entries of the listing of r, relative to the listed directory
Listed(r, o) == {SubSeq(o.files[k].path, Len(r.directoryPath) + 1, Len(o.files[k].path)) :
                    k \in 1..Len(o.files)}
\* the relative path q has a name that starts with a dot
HasHiddenName(q) == \E k \in 1..Len(q) : Len(q[k]) > 0 /\ q[k][1] = "."

\* C9: with listMode files and recursive, directories are left out of the result
\* and still walked: every regular file below the listed directory, at any depth,
\* with no hidden name on its way, that passes the file filters is in the result.
C9_FilesModeWalksDirectories ==
    (req.op = "list" /\ req.listMode = "files" /\ req.recursive /\ out.status = "ok"
        /\ ~IsSet(req.filterOptions, "maxFiles"))
        => /\ \A k \in 1..Len(out.files) : out.files[k].isFile
           /\ \A q \in RelPaths(pre, req.directoryPath) :
                (/\ IsFile(pre, req.directoryPath \o q)
                 /\ ~HasHiddenName(q)
                 /\ passesFileFilters(req.directoryPath \o q, pre[req.directoryPath \o q],
                                      req.filterOptions))
                    => q \in Listed(req, out)

\* C10: with includeHidden false no entry of the result has a name that begins
\* with a dot, and none lies below a directory whose name begins with a dot,
\* whatever the tree, the list mode and the recursive setting.
C10_NoHiddenEntries ==
    (req.op = "list" /\ ~req.includeHidden /\ out.status = "ok")
        => /\ \A k \in 1..Len(out.files) : ~HasHiddenName(<<out.files[k].name>>)
           /\ \A q \in Listed(req, out) : ~HasHiddenName(q)
           /\ \A k \in 1..Len(calls) :
                calls[k].op = "readdir"
                    => ~HasHiddenName(SubSeq(calls[k].path, Len(req.directoryPath) + 1,
                                             Len(calls[k].path)))

\* a recursive listing of a tree that holds a hidden file and a hidden directory
\* with a file in it, returning the entries of a plain subdirectory
C10_Witness ==
    /\ req.op = "list" /\ ~req.includeHidden /\ req.recursive /\ out.status = "ok"
    /\ req.listMode = "both"
    /\ \E q \in RelPaths(pre, req.directoryPath) :
          Len(q) = 2 /\ HasHiddenName(<<q[1]>>) /\ ~HasHiddenName(<<q[2]>>)
    /\ \E q \in RelPaths(pre, req.directoryPath) :
          Len(q) = 1 /\ HasHiddenName(q) /\ IsFile(pre, req.directoryPath \o q)
    /\ \E q \in Listed(req, out) : Len(q) = 2

\* the record lists a readable directory, recursively, below which some
\* directory cannot be read
UnreadableBelow(r, f) ==
    /\ r.op = "list" /\ r.recursive
    /\ IsDir(f, r.directoryPath)
    /\ r.directoryPath \notin r.unreadable
    /\ \E u \in r.unreadable : IsDir(f, u) /\ IsPrefix(r.directoryPath, u)
\* the relative path q lies in or below an unreadable directory
BelowUnreadable(r, q) ==
    \E u \in r.unreadable : IsPrefix(u, r.directoryPath \o q) /\ u # r.directoryPath \o q

\* C11: a recursive listing below which one subdirectory cannot be read does not
\* fail: the record succeeds, the unreadable subtree gives no entry, and every
\* directory outside it that the walk reaches is still returned.
C11_UnreadableSubtreeSkipped ==
    (UnreadableBelow(req, pre) /\ req.listMode = "both")
        => /\ out.status = "ok"
           /\ \A q \in Listed(req, out) : ~BelowUnreadable(req, q)
           /\ \A q \in RelPaths(pre, req.directoryPath) :
                (Len(q) = 1 /\ ~HasHiddenName(q) /\ IsDir(pre, req.directoryPath \o q))
                    => q \in Listed(req, out)

\* the items of returnData from the k-th on
NewItems(old, new) == SubSeq(new, Len(old) + 1, Len(new))

\* the processing of one record: a record is processed only while no error has
\* left execute; a failing record, with continue-on-fail, adds exactly one item,
\* which carries the error message and is paired to the record's index, and
\* nothing is thrown; without continue-on-fail it adds nothing and the error
\* leaves execute; a record that succeeds adds items paired to it, none with
\* an error
C12_Record ==
    /\ thrown = ""
    /\ i' = i + 1
    /\ Len(returnData') >= Len(returnData)
    /\ SubSeq(returnData', 1, Len(returnData)) = returnData
    /\ IF out'.status = "error"
       THEN IF continueOnFail
            THEN /\ NewItems(returnData, returnData') = <<[pairedItem |-> i, error |-> out'.error]>>
                 /\ out'.error # ""
                 /\ thrown' = ""
            ELSE /\ returnData' = returnData
                 /\ thrown' = out'.error /\ thrown' # ""
       ELSE /\ thrown' = ""
            /\ \A k \in (Len(returnData) + 1)..Len(returnData') :
                  returnData'[k] = [pairedItem |-> i, error |-> ""]

\* C12: in the per-record loop of every node, with continue-on-fail a failing
\* record gives exactly one error item, with the error message and paired to the
\* record's index, and the records after it are still processed; without
\* continue-on-fail the first failing record ends the batch: the error leaves
\* execute, no later record is processed and returnData is not returned.
C12_ContinueOnFail ==
    /\ [][C12_Record]_vars
    /\ []((continueOnFail /\ i < MaxRecords) => ENABLED BatchStep)
    /\ []((~continueOnFail /\ out.status = "error") => (thrown # "" /\ ~ENABLED BatchStep))

\* with continue-on-fail, the second record of a batch succeeds after the first
\* one failed and left its error item
C12_Witness ==
    /\ continueOnFail /\ i = 2 /\ out.status = "ok"
    /\ Len(returnData) = 2
    /\ returnData[1].pairedItem = 0 /\ returnData[1].error # ""
    /\ returnData[2] = [pairedItem |-> 1, error |-> ""]

BackupAsked(so) == IsSet(so, "createBackup") /\ so.createBackup

\* C13: a delete record with createBackup on a directory fails, with the
\* 'directory backup not implemented' error when the delete mode and the
\* confirmation let it through to the backup, and in every case without a
\* deletion call: the directory and everything below it are as before.
C13_DirectoryBackupFails ==
    (req.op = "delete" /\ BackupAsked(req.safetyOptions) /\ IsDir(pre, req.filePath))
        => /\ out.status = "error"
           /\ (ModeAccepts(req, pre) /\ ~ConfirmationMismatch(req))
                 => out.error = "DirectoryBackupNotImplemented"
           /\ Ops(calls) \cap Destructive = {}
           /\ SameSubtree(pre, fs, req.filePath)

\* a directory with content, recursive deletion asked for, confirmation given
C13_Witness ==
    /\ req.op = "delete" /\ BackupAsked(req.safetyOptions)
    /\ IsDir(pre, req.filePath) /\ ChildNames(pre, req.filePath) # {}
    /\ IsSet(req.safetyOptions, "recursive")
    /\ IsSet(req.safetyOptions, "requireConfirmation") /\ req.confirmationProvided = "DELETE"
    /\ out.error = "DirectoryBackupNotImplemented"
    /\ SameSubtree(pre, fs, req.filePath)

\* C14: a move record with createBackup and a directory source fails with an
\* error and the directory is not moved: it is where it was, with its content.
C14_MoveDirectoryBackupFails ==
    (req.op = "move" /\ BackupAsked(req.moveOptions) /\ IsDir(pre, req.sourcePath))
        => /\ out.status = "error"
           /\ ContainsCopy(pre, req.sourcePath, fs, req.sourcePath)

RecursiveDisabled(r) == IsSet(r.copyOptions, "recursive") /\ ~r.copyOptions.recursive
\* what is at p and below it is in g what it was in f, nothing if there was nothing
Untouched(f, g, p) == IF Exists(f, p) THEN SameSubtree(f, g, p) ELSE ~Exists(g, p)

\* C15: a copy record with a directory source and recursive disabled fails, with
\* the explicit error when the record reaches the copy (the source is of the
\* kind the copy mode asks for, the destination is free or may be overwritten,
\* and no call before it failed); no file is copied and the destination path is
\* what it was: nothing is created there.
C15_NoFlatDirectoryCopy ==
    (req.op = "copy" /\ IsDir(pre, req.sourcePath) /\ RecursiveDisabled(req))
        => /\ out.status = "error"
           /\ (/\ SourceAccepted(req, pre)
               /\ ~(OverwriteDisabled(req) /\ Exists(pre, req.destinationPath))
               /\ \A k \in 1..Len(calls) : calls[k].err = "")
                 => out.error = "CannotCopyDirectoryWithoutRecursive"
           /\ "copyFile" \notin Ops(calls)
           /\ Untouched(pre, fs, req.destinationPath)

\* the parent of the destination is made, the destination is not
C15_Witness ==
    /\ req.op = "copy" /\ IsDir(pre, req.sourcePath) /\ RecursiveDisabled(req)
    /\ ChildNames(pre, req.sourcePath) # {}
    /\ out.error = "CannotCopyDirectoryWithoutRecursive"
    /\ ~Exists(pre, Parent(req.destinationPath))
    /\ IsDir(fs, Parent(req.destinationPath))
    /\ ~Exists(fs, req.destinationPath)

\* the sum of the sizes of the regular files among the paths S of f
RECURSIVE SumOfSizes(_, _)
SumOfSizes(f, S) ==
    IF S = {} THEN 0
    ELSE LET q == CHOOSE x \in S : TRUE
         IN (IF IsFile(f, q) THEN SizeOf(f[q].data) ELSE 0) + SumOfSizes(f, S \ {q})

\* C16: the copiedBytes of a copy record that succeeds is the sum of the sizes
\* of the regular files of the source: the size of a source file, and for a
\* directory the total over its whole subtree, directories counting for nothing;
\* it is also the total of the files found below a destination that was not
\* there before.
C16_CopiedBytes ==
    (req.op = "copy" /\ out.status = "ok")
        => /\ out.bytes = SumOfSizes(pre, Subtree(pre, req.sourcePath))
           /\ ~Exists(pre, req.destinationPath)
                 => out.bytes = SumOfSizes(fs, Subtree(fs, req.destinationPath))

\* a directory with files of its own, a file in a subdirectory and an empty
\* subdirectory
C16_Witness ==
    /\ req.op = "copy" /\ out.status = "ok"
    /\ IsDir(pre, req.sourcePath)
    /\ \E q \in RelPaths(pre, req.sourcePath) : Len(q) = 2 /\ IsFile(pre, req.sourcePath \o q)
    /\ \E q \in RelPaths(pre, req.sourcePath) : Len(q) = 1 /\ IsFile(pre, req.sourcePath \o q)
    /\ \E q \in RelPaths(pre, req.sourcePath) :
          IsDir(pre, req.sourcePath \o q) /\ ChildNames(pre, req.sourcePath \o q) = {}
    /\ out.bytes = 45

\* the extensions that the extension filter of r lets through
Allowed(r) == {ToLowerCase(Trim(r.filterOptions.extensionFilter[k])) :
                  k \in DOMAIN r.filterOptions.extensionFilter}
\* the names in the directory listed by r that do not begin with a dot
Visible(r, f) == {n \in ChildNames(f, r.directoryPath) : n = <<>> \/ n[1] # "."}
ListedNames(o, kind) == {o.files[k].name : k \in {j \in 1..Len(o.files) : o.files[j].type = kind}}

\* C17: a listing that is not recursive, with includeHidden false and an
\* extension filter and no other filter, returns as files exactly the regular
\* files of the directory whose name does not begin with a dot and whose
\* extension, in lower case, is in the filter (none with listMode directories);
\* the filter is not applied to directories: every directory whose name does not
\* begin with a dot is returned (none with listMode files).
C17_ExtensionFilter ==
    (/\ req.op = "list" /\ ~req.recursive /\ ~req.includeHidden /\ out.status = "ok"
     /\ DOMAIN req.filterOptions = {"extensionFilter"})
        => /\ ListedNames(out, "file") =
                IF req.listMode = "directories" THEN {}
                ELSE {n \in Visible(req, pre) :
                        /\ IsFile(pre, Join(req.directoryPath, n))
                        /\ ToLowerCase(ExtName(n)) \in Allowed(req)}
           /\ ListedNames(out, "directory") =
                IF req.listMode = "files" THEN {}
                ELSE {n \in Visible(req, pre) : IsDir(pre, Join(req.directoryPath, n))}
           /\ Len(out.files) = Cardinality(ListedNames(out, "file"))
                                  + Cardinality(ListedNames(out, "directory"))

\* the directory with a.txt, .b.txt and c.log, filter .txt: a.txt and the
\* directories
C17_Witness ==
    /\ req.op = "list" /\ ~req.recursive /\ ~req.includeHidden /\ out.status = "ok"
    /\ req.listMode = "both"
    /\ DOMAIN req.filterOptions = {"extensionFilter"}
    /\ Allowed(req) = {<<".", "t", "x", "t">>}
    /\ {N_a_txt, N_b_txt, N_c_log} \subseteq ChildNames(pre, req.directoryPath)
    /\ ListedNames(out, "file") = {N_a_txt}
    /\ ListedNames(out, "directory") = {N_d, N_e}

\* the key that orders the entries: names and extensions in lower case, sizes
\* and times as numbers
OrderKey(e, sortBy) ==
    CASE sortBy = "name" -> ToLowerCase(Spell(e.name))
      [] sortBy = "extension" -> ToLowerCase(e.extension)
      [] sortBy = "size" -> e.size
      [] sortBy = "modified" -> e.modified
      [] sortBy = "created" -> e.created
\* x comes strictly before y in the order of the key
Before(x, y, sortBy) == IF sortBy \in {"name", "extension"} THEN StrLess(x, y) ELSE x < y
Occurrences(w, e) == Cardinality({k \in 1..Len(w) : w[k] = e})

\* C18: for every list, key and order, the result of sortFiles is a permutation
\* of the list in which no entry is followed by one whose key comes strictly
\* before it (asc) or strictly after it (desc), names and extensions compared
\* in lower case, sizes and times as numbers.
C18_SortOrdersByKey ==
    req.op = "sort" =>
        /\ Len(out.files) = Len(req.files)
        /\ \A k \in 1..Len(req.files) :
              Occurrences(out.files, req.files[k]) = Occurrences(req.files, req.files[k])
        /\ \A k \in 1..(Len(out.files) - 1) :
              LET x == OrderKey(out.files[k], req.sortBy)
                  y == OrderKey(out.files[k + 1], req.sortBy)
              IN IF req.sortOrder = "asc" THEN ~Before(y, x, req.sortBy)
                 ELSE ~Before(x, y, req.sortBy)

\* b of 5 bytes before a of 10 bytes, by size descending: 10 then 5
C18_Witness ==
    /\ req.op = "sort" /\ req.sortBy = "size" /\ req.sortOrder = "desc"
    /\ Len(req.files) = 2
    /\ req.files[1].name = <<"b">> /\ req.files[1].size = 5
    /\ req.files[2].name = <<"a">> /\ req.files[2].size = 10
    /\ out.files = <<req.files[2], req.files[1]>>

HasMode(r) == r.op \in {"delete", "copy", "move"}
Target(r) == IF r.op = "delete" THEN r.filePath ELSE r.sourcePath
ModeOf(r) == IF r.op = "delete" THEN r.deleteMode ELSE TransferMode(r)
TypeMismatch == {"NotAFile", "NotADirectory"}

\* C19: in DeleteFile, CopyFile and MoveFile, on a target that exists: mode file
\* rejects what is not a regular file and mode directory what is not a
\* directory, with a type-mismatch error, no call that changes the file system
\* and the file system as it was; every other record, mode auto on either kind
\* among them, gets no type-mismatch error.
C19_ModeRestriction ==
    (HasMode(req) /\ Exists(pre, Target(req)))
        => /\ (ModeOf(req) = "file" /\ ~IsFile(pre, Target(req)))
                 => /\ out.status = "error" /\ out.error = "NotAFile"
                    /\ Ops(calls) \cap Writes = {} /\ fs = pre
           /\ (ModeOf(req) = "directory" /\ ~IsDir(pre, Target(req)))
                 => /\ out.status = "error" /\ out.error = "NotADirectory"
                    /\ Ops(calls) \cap Writes = {} /\ fs = pre
           /\ (\/ ModeOf(req) = "auto"
               \/ ModeOf(req) = "file" /\ IsFile(pre, Target(req))
               \/ ModeOf(req) = "directory" /\ IsDir(pre, Target(req)))
                 => out.error \notin TypeMismatch

\* a file is moved with mode auto, then a directory is refused to mode file
C19_Witness ==
    /\ i = 2
    /\ req.op \in {"copy", "delete"} /\ ModeOf(req) = "file" /\ IsDir(pre, Target(req))
    /\ ChildNames(pre, Target(req)) # {}
    /\ out.error = "NotAFile" /\ fs = pre
    /\ returnData[1].error = ""

SkipAsked(so) == IsSet(so, "skipIfNotExists") /\ so.skipIfNotExists

\* C20: a delete record on a path that does not exist, with skipIfNotExists,
\* gives a success item marked skipped and no error, whatever the other options,
\* and without it fails with the not-found error; in both cases the only call is
\* the existence test and the file system is as it was.
C20_MissingPath ==
    (req.op = "delete" /\ ~Exists(pre, req.filePath))
        => /\ IF SkipAsked(req.safetyOptions)
              THEN /\ out.status = "ok" /\ out.skipped /\ out.error = ""
                   /\ returnData[Len(returnData)] = [pairedItem |-> i - 1, error |-> ""]
              ELSE out.status = "error" /\ out.error = "PathNotFound"
           /\ Ops(calls) = {"existsSync"}
           /\ fs = pre

\* the path was deleted by the record before; mode, backup and confirmation are
\* of no effect on the skip
C20_Witness ==
    /\ req.op = "delete" /\ i = 2
    /\ ~Exists(pre, req.filePath) /\ Exists(Tree(TRUE, TRUE), req.filePath)
    /\ SkipAsked(req.safetyOptions)
    /\ BackupAsked(req.safetyOptions) /\ ConfirmationMismatch(req)
    /\ req.deleteMode = "directory"
    /\ out.status = "ok" /\ out.skipped

\* where the copy of q, an entry of the source of the move r, is put
CopyTarget(r, q) == r.destinationPath \o SubSeq(q, Len(r.sourcePath) + 1, Len(q))
\* the calls that make the copy of the copy-then-delete path, the rename set apart
IsCopyCall(c) == c.op \in {"mkdir", "readdir", "stat", "copyFile"}
\* the rename of the record failed, the copy was started and one of its calls
\* raised an error
CopyFailed(cs) ==
    \E j \in RenameCalls(cs) :
        /\ cs[j].err # ""
        /\ \E k \in (j + 1)..Len(cs) :
              /\ IsCopyCall(cs[k]) /\ cs[k].err # ""
              /\ \A h \in (j + 1)..(k - 1) : cs[h].op \notin Destructive

\* C23: in the copy-then-delete path of a move record the deletion of the source
\* comes after the whole copy: every call made between the failed rename and
\* the deletion returned without error, every regular file of the source was
\* copied to its place and every directory made there before the deletion; when
\* a call of the copy fails no deletion is called and the source keeps every
\* entry with its content (and is in every respect what it was when the
\* destination does not lie inside it).
C23_DeleteAfterWholeCopy ==
    req.op = "move" =>
        /\ \A k \in 1..Len(calls) :
              calls[k].op \in Destructive
                  => /\ \A j \in 1..(k - 1) : calls[j].op = "rename" \/ calls[j].err = ""
                     /\ \A q \in Subtree(pre, req.sourcePath) :
                           \E j \in 1..(k - 1) :
                              IF IsFile(pre, q)
                              THEN /\ calls[j].op = "copyFile" /\ calls[j].path = q
                                   /\ calls[j].to = CopyTarget(req, q)
                              ELSE calls[j].op = "mkdir" /\ calls[j].path = CopyTarget(req, q)
        /\ CopyFailed(calls)
              => /\ out.status = "error"
                 /\ Ops(calls) \cap Destructive = {}
                 /\ ContainsCopy(pre, req.sourcePath, fs, req.sourcePath)
                 /\ ~IsPrefix(req.sourcePath, req.destinationPath)
                       => SameSubtree(pre, fs, req.sourcePath)

\* a directory moved across devices whose copy fails after a part of it was
\* made at the destination
C23_Witness ==
    /\ req.op = "move" /\ req.crossDevice /\ CopyFailed(calls)
    /\ IsDir(pre, req.sourcePath)
    /\ \E q \in Subtree(pre, req.sourcePath) \ {req.sourcePath} : IsDir(fs, CopyTarget(req, q))
    /\ \E q \in Subtree(pre, req.sourcePath) : IsFile(pre, q) /\ ~Exists(fs, CopyTarget(req, q))
    /\ Ops(calls) \cap Destructive = {}
    /\ ContainsCopy(pre, req.sourcePath, fs, req.sourcePath)


\* the record is rejected by a validation: a directory copied without recursive,
\* a write from a property that the input record lacks or from an unknown source
ValidationErrors == {"CannotCopyDirectoryWithoutRecursive", "PropertyNotFound", "InvalidContentSource"}

\* C26: a copy or write record that a validation rejects (directory source with
\* recursive disabled; property missing from the input record; invalid content
\* source) has changed nothing: no call that changes the file system was made,
\* no parent directory created, no backup file written.
C26_ValidationBeforeMutation ==
    (req.op \in {"copy", "write"} /\ out.status = "error" /\ out.error \in ValidationErrors)
        => /\ Ops(calls) \cap Writes = {}
           /\ fs = pre

\* C27: in a listing with includeHidden false no file-system call is made on an
\* entry whose name begins with a dot: neither stat nor readdir; so that such an
\* entry cannot make the listing fail.
C27_HiddenSkippedBeforeStat ==
    (req.op = "list" /\ ~req.includeHidden)
        => \A k \in 1..Len(calls) :
              (Len(calls[k].path) > Len(req.directoryPath) /\ IsPrefix(req.directoryPath, calls[k].path))
                  => ~HasHiddenName(SubSeq(calls[k].path, Len(req.directoryPath) + 1,
                                           Len(calls[k].path)))

\* C28: a delete record whose safetyOptions do not set requireConfirmation is
\* under the declared default, true: without a confirmation string equal to the
\* phrase the deletion is refused and the path stays.
C28_ConfirmationByDefault ==
    (/\ req.op = "delete" /\ Exists(pre, req.filePath)
     /\ ~IsSet(req.safetyOptions, "requireConfirmation")
     /\ req.confirmationProvided # Phrase(req.safetyOptions))
        => /\ out.status = "error"
           /\ Ops(calls) \cap Destructive = {}
           /\ Exists(fs, req.filePath)


\* C24: a delete record that reports success with deleted = true has removed
\* its target: the path does not exist after the record, whatever the kind of
\* the target (regular file, directory, other) and the delete mode.
C24_DeletedMeansGone ==
    (req.op = "delete" /\ out.status = "ok" /\ out.method = "deleted")
        => ~Exists(fs, req.filePath)


\* C29: a CreateDirectory record that reports success, created or skipped
\* because the target is already there, leaves its target path in existence and
\* a directory.
C29_SuccessMeansDirectory ==
    (req.op = "create" /\ out.status = "ok") => IsDir(fs, CreateTarget(req))


IsLinkAt(f, p) == Exists(f, p) /\ f[p].kind = "link"
\* no item of returnData is paired to the record k
NoItemOf(k) == \A j \in 1..Len(returnData) : returnData[j].pairedItem # k

\* C21: a FileExists record on a path that does not exist raises no error,
\* with and without continue-on-fail: it gives one item with exists = false and
\* pathExists = false, or no item when onlyIfExists is set; a record on a path
\* that exists and whose stat call fails gives an item with pathExists = true,
\* so that the two outcomes differ in the output.
C21_NotFoundIsNormal ==
    (req.op = "exists" /\ req.filePath # Blank)
        => /\ ~PathExists(pre, req.filePath)
                => /\ out.status = "ok" /\ out.error = "" /\ thrown = ""
                   /\ Ops(calls) = {"existsSync"}
                   /\ IF Truthy(req.outputOptions, "onlyIfExists")
                      THEN out = NoItem /\ NoItemOf(i - 1)
                      ELSE /\ out.method = "checked"
                           /\ ~out.exists /\ ~out.pathExists
                           /\ returnData[Len(returnData)] = [pairedItem |-> i - 1, error |-> ""]
           /\ (PathExists(pre, req.filePath) /\ req.statError # "")
                => /\ out.status = "ok" /\ out.method = "checked"
                   /\ out.pathExists
                   /\ returnData[Len(returnData)] = [pairedItem |-> i - 1, error |-> ""]

\* without continue-on-fail, the second record of a batch is on a link to
\* nothing: an item with exists = false, nothing thrown
C21_Witness ==
    /\ req.op = "exists" /\ ~continueOnFail /\ i = 2
    /\ IsLinkAt(pre, req.filePath) /\ ~PathExists(pre, req.filePath)
    /\ out.status = "ok" /\ ~out.exists /\ ~out.pathExists
    /\ Len(returnData) = 2 /\ thrown = ""

\* C22: a FileExists record with resolveSymlinks and includeDetails on a path
\* that is a symbolic link (to something that exists) reports the link: its
\* details hold isSymbolicLink = true and realPath, the path the link leads to.
C22_LinkResolved ==
    (/\ req.op = "exists"
     /\ Truthy(req.checkOptions, "resolveSymlinks") /\ Truthy(req.checkOptions, "includeDetails")
     /\ IsLinkAt(pre, req.filePath) /\ PathExists(pre, req.filePath)
     /\ req.statError = "")
        => /\ out.status = "ok" /\ out.method = "checked"
           /\ out.details # <<>>
           /\ out.details.isSymbolicLink
           /\ IsSet(out.details, "realPath")
           /\ out.details.realPath = RealPath(pre, req.filePath).path


\* how many levels below the root of the walk r the path q lies
Level(r, q) == Len(q) - Len(r.dirPath)

\* C30: fileUtils.getFilesRecursively reads no directory that lies maxDepth or
\* more levels below the root of the walk (the root is at level 0), so every
\* entry it returns lies between 1 and maxDepth levels below the root, and with
\* maxDepth 0 it returns nothing and calls nothing; without patterns and with
\* every directory readable it returns every entry down to that level.
C30_MaxDepthHonoured ==
    req.op = "walk" =>
        /\ \A k \in 1..Len(calls) :
              /\ IsPrefix(req.dirPath, calls[k].path)
              /\ calls[k].op = "readdir" => Level(req, calls[k].path) < req.maxDepth
              /\ calls[k].op = "stat" => Level(req, calls[k].path) <= req.maxDepth
        /\ \A k \in 1..Len(out.files) :
              /\ IsPrefix(req.dirPath, out.files[k].path)
              /\ Level(req, out.files[k].path) \in 1..req.maxDepth
        /\ req.maxDepth = 0 => out.files = <<>> /\ calls = <<>>
        /\ (req.patterns = <<>> /\ req.excludePatterns = <<>> /\ req.unreadable = {})
              => {out.files[k].path : k \in 1..Len(out.files)}
                    = {q \in Subtree(pre, req.dirPath) : Level(req, q) \in 1..req.maxDepth}

\* a walk from the root of a tree three levels deep with maxDepth 2: the
\* entries of the second level are returned, the directories there are not read
C30_Witness ==
    /\ req.op = "walk" /\ req.dirPath = Root /\ req.maxDepth = 2
    /\ req.patterns = <<>> /\ req.excludePatterns = <<>> /\ req.unreadable = {}
    /\ \E q \in DOMAIN pre : Len(q) = 3
    /\ \E k \in 1..Len(out.files) : out.files[k].isDirectory /\ Len(out.files[k].path) = 2
    /\ \A k \in 1..Len(out.files) : Len(out.files[k].path) <= 2
    /\ \A k \in 1..Len(calls) : calls[k].op = "readdir" => Len(calls[k].path) <= 1


\* C25: a recursive copy of a directory that has started comes to its end, with
\* a result or with an error, whatever the destination: outside the source or
\* inside it.
C25_CopyTerminates == (out.status = "running") ~> (out.status # "running")

\* a directory copied into itself: the copy ran into the copy it was making,
\* one level deeper at each turn, and ended when the path grew too long
C25_Witness ==
    /\ req.op = "copy" /\ stack = <<>>
    /\ IsDir(pre, req.sourcePath)
    /\ IsPrefix(req.sourcePath, req.destinationPath)
    /\ out.status = "error" /\ out.error = "ENAMETOOLONG"
    /\ IsDir(fs, req.destinationPath)
    /\ \E q \in Subtree(fs, req.destinationPath) : Len(q) = MaxPathLen


====
